---- MODULE Spec2Model ----
(***************************************************************************)
(* Simulation core of game-programming-rust-sample: the entity manager and *)
(* the frame loop (chapter10/src/game.rs, system/entity_manager.rs), the   *)
(* actor/component update protocol (actors/actor.rs) and the collision     *)
(* queries of PhysWorld (system/phys_world.rs, collision/*.rs).            *)
(***************************************************************************)
EXTENDS Integers, Sequences, FiniteSets, TLC

(***************************************************************************)
(* Bounds                                                                  *)
(***************************************************************************)
\* number of actors that are ever constructed (ids 0 .. MaxActors-1)
MaxActors == 3

\* segment end points and box corners have coordinates in 0 .. GridMax
GridMax == 2

\* longest side of a registered world box
MaxSide == 1

\* number of boxes registered in PhysWorld
MaxBoxes == 2

\* length of PhysWorld.boxes where a component can be registered twice
MaxRegistry == 3

ActorIds == 0 .. (MaxActors - 1)

\* every actor of the entity-manager model owns one BoxComponent, whose
\* component id is drawn from the component id generator in lockstep
CompIds == 0 .. (MaxActors - 1)

(***************************************************************************)
(* State of the frame loop / entity manager                                *)
(***************************************************************************)
VARIABLES
    actors,            \* EntityManager.actors
    pending_actors,    \* EntityManager.pending_actors
    updating_actors,   \* EntityManager.updating_actors
    actor_state,       \* Actor.state per id ("None" = not constructed yet)
    components,        \* Actor.components per id
    component_state,   \* Component.state per component id
    boxes,             \* PhysWorld.boxes
    ID,                \* actor::ID, the next id generate_id hands out
    issued,            \* history: the ids generate_id has returned, in order
    pc,                \* position of Game::run_loop
    iter,              \* the clone of the actor list a pass iterates over
    idx,               \* position of the pass in iter (1-based)
    updates_this_tick, \* history: Actor::update calls per actor in this tick
    spawned_in_update, \* history: actors constructed in this tick's update pass
    deferred,          \* history: add_actor(updating) since the last flush_actors
    remove_count,      \* history: remove_actor calls per actor
    pre_pending,       \* history: pending list when flush_actors was entered
    flushed            \* history: actors the last flush_actors removed

varsEM == <<actors, pending_actors, updating_actors, actor_state, components,
            component_state, boxes, ID, issued, pc, iter, idx, updates_this_tick,
            spawned_in_update, deferred, remove_count, pre_pending, flushed>>

(***************************************************************************)
(* State of one actor under the update protocol (actors/actor.rs)          *)
(***************************************************************************)
VARIABLES
    actor,             \* the actor: state, position, scale, rotation,
                       \* world_transform, recompute_world_transform,
                       \* components
    update_log,        \* history: update_order of each Component::update
                       \* call of the last Actor::update, in order
    update_actor_called,\* history: the last Actor::update called
                       \* update_actor
    computes_since_set,\* history: compute_world_transform calls since the
                       \* last setter call (2 stands for two or more)
    same_matrix,       \* history: the last compute_world_transform call,
                       \* if it repeated one with no setter call between,
                       \* left world_transform as it was
    notified_last,     \* history: on_update_world_transform calls made by
                       \* that repeated call
    comp_state,        \* Component.state of each component of the actor
                       \* ("None" = not constructed yet)
    debug_assertions,  \* cfg(debug_assertions) of the build: debug_assert!
                       \* is checked (dev, test) or compiled out (release)
    assertion          \* <<>>, or <<operation, "failed">> once a
                       \* debug_assert! has panicked, or history:
                       \* <<operation, "skipped">> once one that does not
                       \* hold was compiled out

varsActor == <<actor, update_log, update_actor_called, computes_since_set, same_matrix,
               notified_last, comp_state, debug_assertions, assertion>>

(***************************************************************************)
(* State of the collision queries (system/phys_world.rs)                   *)
(***************************************************************************)
VARIABLES
    world_boxes,       \* PhysWorld.boxes as the sequence of the world boxes
                       \* (get_world_box) of the registered components
    line,              \* the segment of the cast in progress in
                       \* BallMove::update, <<>> when there is none
    hits,              \* what intersect_aabb returned for each registered
                       \* box during that cast, in scan order
    collision_info     \* what segment_cast returned: <<>> for None,
                       \* <<info>> for Some(info)

varsGeom == <<world_boxes, line, hits, collision_info>>

(***************************************************************************)
(* State of the box registry of PhysWorld under its whole interface: it    *)
(* is boxes and component_state above, and                                 *)
(***************************************************************************)
VARIABLES
    world_box,         \* BoxComponent.world_box per component id
    last_query,        \* history: the last query of the registry, "none"
                       \* when the registry or a box changed since
    boxes_before,      \* history: PhysWorld.boxes when that query began
    calls,             \* history: the arguments of the calls that query
                       \* made of its callback f, in order
    cast               \* history: what that query returned, if it was a
                       \* segment_cast

varsPhys == <<world_box, last_query, boxes_before, calls, cast>>

(***************************************************************************)
(* State of a test of one geometry primitive (collision/aabb.rs)           *)
(***************************************************************************)
VARIABLES
    contained,         \* the last AABB::contains call: <<>> when there was
                       \* none, else <<[aabb, point, result]>>
    intersected        \* the last AABB::intersect call: <<>> when there was
                       \* none, else <<[a, b, result, swapped]>>, where
                       \* swapped is the result of the call b.intersect(a)

varsAabb == <<contained, intersected>>

(***************************************************************************)
(* State of a test of a segment or capsule query (collision/capsule.rs,    *)
(* collision/line_segment.rs)                                              *)
(***************************************************************************)
VARIABLES
    seg_call           \* the call the test made: <<>> before it, else a
                       \* record <<[op, ..., result]>> of its arguments and
                       \* of what it returned

varsSeg == <<seg_call>>

(***************************************************************************)
(* State of a test of the searches of chapter04 (math/search.rs)           *)
(***************************************************************************)
VARIABLES
    search_call        \* the call the test made: <<>> before it, else a
                       \* record <<[op, ..., result]>> of its arguments and
                       \* of what it returned

varsSearch == <<search_call>>

(***************************************************************************)
(* State of one AIComponent (chapter04/src/components/ai_component.rs)     *)
(***************************************************************************)
VARIABLES
    state_map,         \* AIComponent.state_map: the names a state is
                       \* registered under
    current_state,     \* AIComponent.current_state: None or Some(name)
    ai_log,            \* the calls the last operation made on AI states, in
                       \* order: <<"update" | "on_exit" | "on_enter", name>>
    update_result      \* what the current state's update returned in the
                       \* last AIComponent::update: None or Some(name);
                       \* <<"-">> when the last operation was not an update

varsAI == <<state_map, current_state, ai_log, update_result>>

(***************************************************************************)
(* What the components saw in the last pass of Actor::update_component     *)
(***************************************************************************)
VARIABLES
    pass_entry,        \* history: <<>> before the first pass, else <<info>>,
                       \* the owner info of the actor as the pass began
    pass_infos         \* history: the owner info each Component::update of
                       \* the pass received, in call order

varsPass == <<pass_entry, pass_infos>>

(***************************************************************************)
(* State of generate_id called from several threads (actors/actor.rs,      *)
(* chapter02 components/component.rs, chapter04 math/search.rs)            *)
(***************************************************************************)
VARIABLES
    atomic_ID,         \* the static ID: AtomicU32
    thread_pc,         \* where each thread is in generate_id: "call" (not
                       \* inside it) or "loaded" (between load and fetch_add)
    thread_id,         \* the local id of each thread inside generate_id
    returned           \* history: the ids generate_id returned, in the order
                       \* of the returns

varsIds == <<atomic_ID, thread_pc, thread_id, returned>>

(***************************************************************************)
(* State of the tower-defense Grid (chapter04/src/actors/grid.rs)          *)
(***************************************************************************)
VARIABLES
    blocked,           \* the tiles whose Tile.blocked is true
    selected_tile,     \* Grid.selected_tile: None or Some(tile)
    tile_parent,       \* Tile.parent of every tile: None or Some(tile)
    path_tiles,        \* the tiles whose tile_state is TileState::Path
    towers             \* the tiles a Tower was created on

varsGrid == <<blocked, selected_tile, tile_parent, path_tiles, towers>>

(***************************************************************************)
(* State of the player among the planes (chapter10/src/actors/fps_actor.rs) *)
(***************************************************************************)
VARIABLES
    fps_position,      \* Actor.position of the FPSActor
    fps_recompute,     \* its recompute_world_transform
    fps_world_box,     \* BoxComponent.world_box of its box component
    planes,            \* EntityManager.planes: the world box of each
    fix_call           \* history: position and world box the last
                       \* fix_collision started from, <<>> when the
                       \* player or the planes have changed since

varsFix == <<fps_position, fps_recompute, fps_world_box, planes, fix_call>>

vars ==
    <<varsEM, varsActor, varsGeom, varsPhys, varsAabb, varsSeg, varsSearch,
      varsAI, varsPass, varsIds, varsGrid, varsFix>>

\* what the frame-loop actions leave alone
varsNotEM == <<varsActor, varsGeom, varsPhys, varsAabb, varsSeg,
    varsSearch, varsAI, varsPass, varsIds, varsGrid, varsFix>>

\* what the actor actions leave alone
varsNotActor == <<varsEM, varsGeom, varsPhys, varsAabb, varsSeg,
    varsSearch, varsAI, varsPass, varsIds, varsGrid, varsFix>>

\* what the collision queries leave alone
varsNotGeom == <<varsEM, varsActor, varsPhys, varsAabb, varsSeg,
    varsSearch, varsAI, varsPass, varsIds, varsGrid, varsFix>>

\* what the tests of a geometry primitive leave alone
varsNotAabb == <<varsEM, varsActor, varsGeom, varsPhys, varsSeg,
    varsSearch, varsAI, varsPass, varsIds, varsGrid, varsFix>>

\* what the tests of a segment or capsule query leave alone
varsNotSeg ==
    <<varsEM, varsActor, varsGeom, varsPhys, varsAabb, varsSearch, varsAI,
      varsPass, varsIds, varsGrid, varsFix>>

\* what the tests of the searches leave alone
varsNotSearch ==
    <<varsEM, varsActor, varsGeom, varsPhys, varsAabb, varsSeg, varsAI,
      varsPass, varsIds, varsGrid, varsFix>>

\* what the operations of the AIComponent leave alone
varsNotAI ==
    <<varsEM, varsActor, varsGeom, varsPhys, varsAabb, varsSeg, varsSearch,
      varsPass, varsIds, varsGrid, varsFix>>

\* what generate_id leaves alone
varsNotIds ==
    <<varsEM, varsActor, varsGeom, varsPhys, varsAabb, varsSeg, varsSearch,
      varsAI, varsPass, varsGrid, varsFix>>

\* what the operations of the Grid leave alone
varsNotGrid ==
    <<varsEM, varsActor, varsGeom, varsPhys, varsAabb, varsSeg, varsSearch,
      varsAI, varsPass, varsIds, varsFix>>

\* what the operations on the player leave alone
varsNotFix ==
    <<varsEM, varsActor, varsGeom, varsPhys, varsAabb, varsSeg, varsSearch,
      varsAI, varsPass, varsIds, varsGrid>>

\* what the operations of the box registry leave alone
varsNotPhys == <<actors, pending_actors, updating_actors, actor_state,
                 components, ID, issued, pc, iter, idx, updates_this_tick,
                 spawned_in_update, deferred, remove_count, pre_pending,
                 flushed, varsActor, varsGeom, varsAabb, varsSeg, varsSearch,
                 varsAI, varsPass, varsIds, varsGrid, varsFix>>

Range(s) == {s[i] : i \in 1 .. Len(s)}

Count(s, x) == Cardinality({i \in 1 .. Len(s) : s[i] = x})

RECURSIVE Retain(_, _)
\* Vec::retain: keeps, in order, the elements of s that are in keep
Retain(s, keep) ==
    IF s = <<>> THEN <<>>
    ELSE IF Head(s) \in keep THEN <<Head(s)>> \o Retain(Tail(s), keep)
         ELSE Retain(Tail(s), keep)

\* the EntityManager as a value
EM == [actors |-> actors, pending_actors |-> pending_actors,
       updating_actors |-> updating_actors]

\* EntityManager::add_actor
add_actor(em, a) ==
    IF em.updating_actors
    THEN [em EXCEPT !.pending_actors = Append(@, a)]
    ELSE [em EXCEPT !.actors = Append(@, a)]

\* flush_actors that merges the pending list but forgets to clear it
flush_actors_no_clear(em, st) ==
    LET merged == em.actors \o em.pending_actors
        alive  == {a \in ActorIds : st[a] # "Dead"}
    IN  [actors          |-> Retain(merged, alive),
         pending_actors  |-> em.pending_actors,
         updating_actors |-> em.updating_actors,
         removed         |-> Retain(merged, ActorIds \ alive)]

\* EntityManager::flush_actors, the list part: merge pending, clear it, and
\* retain the actors that are not Dead; removed lists the entries that the
\* retain closure hands to remove_actor, one per entry of the list
flush_actors(em, st) ==
    LET merged == em.actors \o em.pending_actors
        alive  == {a \in ActorIds : st[a] # "Dead"}
    IN  [actors          |-> Retain(merged, alive),
         pending_actors  |-> <<>>,
         updating_actors |-> em.updating_actors,
         removed         |-> Retain(merged, ActorIds \ alive)]

\* a pass that walks the live lists instead of the clone taken before it
CurrentIterLive(snapshot, em) == em.actors \o em.pending_actors

\* the list a pass walks: Game clones get_actors() before the loop
CurrentIter(snapshot, em) == snapshot

(***************************************************************************)
(* Construction of an actor: XxxActor::new                                 *)
(***************************************************************************)
\* BallActor::new / TargetActor::new: the actor takes the next id, starts
\* Active, gets its BoxComponent (attached to the actor and registered in
\* PhysWorld) and is handed to add_actor. Yields the new manager value.
\* generate_id that returns the counter and leaves it as it was
generate_id_no_increment(counter) == [id |-> counter, ID |-> counter]

\* actor::generate_id: ID.load, then ID.fetch_add(1); the AtomicU32 wraps
\* after 2^32 calls, far beyond the MaxActors ids of this model
generate_id(counter) == [id |-> counter, ID |-> counter + 1]

\* XxxActor::new; a is the id generate_id returns
SpawnActor(a) ==
    LET em2 == add_actor(EM, a)
    IN  /\ a = generate_id(ID).id
        /\ ID' = generate_id(ID).ID
        /\ issued' = Append(issued, a)
        /\ actor_state' = [actor_state EXCEPT ![a] = "Active"]
        /\ components' = [components EXCEPT ![a] = <<a>>]
        /\ component_state' = [component_state EXCEPT ![a] = "Active"]
        /\ boxes' = Append(boxes, a)
        /\ actors' = em2.actors
        /\ pending_actors' = em2.pending_actors
        /\ deferred' = IF updating_actors THEN deferred \cup {a} ELSE deferred

NoSpawn ==
    UNCHANGED <<ID, issued, actor_state, components, component_state, boxes, actors,
                pending_actors, deferred>>

(***************************************************************************)
(* Game::process_input                                                     *)
(***************************************************************************)
\* game.rs 122-123: raise the flag and clone the actor list
ProcessInputBegin ==
    /\ pc = "process_input"
    /\ updating_actors' = TRUE
    /\ iter' = actors
    /\ idx' = 1
    /\ pc' = "input_loop"
    /\ UNCHANGED <<actors, pending_actors, actor_state, components,
                   component_state, boxes, ID, issued, updates_this_tick,
                   spawned_in_update, deferred, remove_count, pre_pending,
                   flushed>>
    /\ UNCHANGED varsNotEM

\* game.rs 124-126: Actor::process_input of the next actor of the clone; an
\* Active actor's actor_input may construct an actor (Ship::actor_input
\* fires a Laser, FPSActor::shoot a BallActor)
ProcessInputActor ==
    /\ pc = "input_loop"
    /\ idx <= Len(CurrentIter(iter, EM))
    /\ LET a == CurrentIter(iter, EM)[idx]
       IN  \/ NoSpawn
           \/ /\ actor_state[a] = "Active"
              /\ ID < MaxActors
              /\ SpawnActor(ID)
    /\ idx' = idx + 1
    /\ UNCHANGED <<updating_actors, pc, iter, updates_this_tick,
                   spawned_in_update, remove_count, pre_pending, flushed>>
    /\ UNCHANGED varsNotEM

\* the loop of process_input is over: run_loop goes on to update_game
ProcessInputEnd ==
    /\ pc = "input_loop"
    /\ idx > Len(CurrentIter(iter, EM))
    /\ pc' = "update_game"
    /\ UNCHANGED <<actors, pending_actors, updating_actors, actor_state,
                   components, component_state, boxes, ID, issued, iter, idx,
                   updates_this_tick, spawned_in_update, deferred,
                   remove_count, pre_pending, flushed>>
    /\ UNCHANGED varsNotEM

(***************************************************************************)
(* Game::update_game                                                       *)
(***************************************************************************)
\* game.rs 188-189: raise the flag and clone the actor list
UpdateGameBegin ==
    /\ pc = "update_game"
    /\ updating_actors' = TRUE
    /\ iter' = actors
    /\ idx' = 1
    /\ pc' = "update_loop"
    /\ updates_this_tick' = [a \in ActorIds |-> 0]
    /\ spawned_in_update' = {}
    /\ UNCHANGED <<actors, pending_actors, actor_state, components,
                   component_state, boxes, ID, issued, deferred, remove_count,
                   pre_pending, flushed>>
    /\ UNCHANGED varsNotEM

\* game.rs 190-192: Actor::update of the next actor of the clone. Only an
\* Active actor runs update_component and update_actor; its update_actor may
\* mark itself or another actor Dead (BallActor, Laser) or construct an
\* actor (Tower::update_actor fires a Bullet).
UpdateActor ==
    /\ pc = "update_loop"
    /\ idx <= Len(CurrentIter(iter, EM))
    /\ LET a == CurrentIter(iter, EM)[idx]
       IN  IF actor_state[a] # "Active"
           THEN /\ NoSpawn
                /\ UNCHANGED <<updates_this_tick, spawned_in_update>>
           ELSE /\ updates_this_tick' =
                       [updates_this_tick EXCEPT ![a] = @ + 1]
                /\ \/ /\ NoSpawn
                      /\ UNCHANGED spawned_in_update
                   \/ /\ \E b \in Range(actors) \cup Range(pending_actors) :
                            actor_state' = [actor_state EXCEPT ![b] = "Dead"]
                      /\ UNCHANGED <<ID, issued, components, component_state, boxes,
                                     actors, pending_actors, deferred,
                                     spawned_in_update>>
                   \/ /\ ID < MaxActors
                      /\ SpawnActor(ID)
                      /\ spawned_in_update' = spawned_in_update \cup {ID}
    /\ idx' = idx + 1
    /\ UNCHANGED <<updating_actors, pc, iter, remove_count, pre_pending,
                   flushed>>
    /\ UNCHANGED varsNotEM

\* game.rs 193-199: lower the flag, then compute_world_transform and
\* add_actor for every pending actor (the flag is false by now)
RECURSIVE AddAll(_, _)
AddAll(em, s) ==
    IF s = <<>> THEN em ELSE AddAll(add_actor(em, Head(s)), Tail(s))

UpdateGameReAdd ==
    /\ pc = "update_loop"
    /\ idx > Len(CurrentIter(iter, EM))
    /\ LET em1 == [EM EXCEPT !.updating_actors = FALSE]
           em2 == AddAll(em1, em1.pending_actors)
       IN  /\ actors' = em2.actors
           /\ pending_actors' = em2.pending_actors
           /\ updating_actors' = em2.updating_actors
    /\ pc' = "flush_actors"
    /\ UNCHANGED <<actor_state, components, component_state, boxes, ID, issued, iter,
                   idx, updates_this_tick, spawned_in_update, deferred,
                   remove_count, pre_pending, flushed>>
    /\ UNCHANGED varsNotEM

\* actor::remove_actor applied to every entry of removed, in order
\* remove_actor that sets the state Paused
remove_actor_state_paused(st, removed) ==
    [a \in ActorIds |-> IF a \in Range(removed) THEN "Paused" ELSE st[a]]

\* remove_actor, actor.rs 301: set_state(State::Dead)
remove_actor_state(st, removed) ==
    [a \in ActorIds |-> IF a \in Range(removed) THEN "Dead" ELSE st[a]]

remove_actor_component_state(cst, comps, removed) ==
    [c \in CompIds |->
        IF \E a \in Range(removed) : c \in Range(comps[a]) THEN "Dead"
        ELSE cst[c]]

remove_actor_components(comps, removed) ==
    [a \in ActorIds |-> IF a \in Range(removed) THEN <<>> ELSE comps[a]]

\* game.rs 201: EntityManager::flush_actors
FlushActors ==
    /\ pc = "flush_actors"
    /\ LET r == flush_actors(EM, actor_state)
       IN  /\ actors' = r.actors
           /\ pending_actors' = r.pending_actors
           /\ updating_actors' = r.updating_actors
           /\ actor_state' = remove_actor_state(actor_state, r.removed)
           /\ component_state' =
                  remove_actor_component_state(component_state, components,
                                               r.removed)
           /\ components' = remove_actor_components(components, r.removed)
           /\ remove_count' =
                  [a \in ActorIds |-> remove_count[a] + Count(r.removed, a)]
           /\ flushed' = r.removed
    /\ pre_pending' = pending_actors
    /\ deferred' = {}
    /\ pc' = "flush_boxes"
    /\ UNCHANGED <<boxes, ID, issued, iter, idx, updates_this_tick,
                   spawned_in_update>>
    /\ UNCHANGED varsNotEM

\* flush_boxes that retains every box
flush_boxes_keeps_dead(bs, cst) == bs

\* PhysWorld::flush_boxes
flush_boxes(bs, cst) == Retain(bs, {c \in CompIds : cst[c] = "Active"})

\* game.rs 203: PhysWorld::flush_boxes
FlushBoxes ==
    /\ pc = "flush_boxes"
    /\ boxes' = flush_boxes(boxes, component_state)
    /\ pc' = "generate_output"
    /\ UNCHANGED <<actors, pending_actors, updating_actors, actor_state,
                   components, component_state, ID, issued, iter, idx,
                   updates_this_tick, spawned_in_update, deferred,
                   remove_count, pre_pending, flushed>>
    /\ UNCHANGED varsNotEM

\* Game::generate_output draws and run_loop starts the next frame
GenerateOutput ==
    /\ pc = "generate_output"
    /\ pc' = "process_input"
    /\ UNCHANGED <<actors, pending_actors, updating_actors, actor_state,
                   components, component_state, boxes, ID, issued, iter, idx,
                   updates_this_tick, spawned_in_update, deferred,
                   remove_count, pre_pending, flushed>>
    /\ UNCHANGED varsNotEM

(***************************************************************************)
(* Vectors, quaternions and matrices (math/vector3.rs, quaternion.rs,      *)
(* matrix4.rs), over the integers                                          *)
(***************************************************************************)
\* largest x coordinate an actor is placed at
MaxCoord == 1

\* largest uniform scale an actor is given
MaxScale == 2

\* number of components that are ever attached to the actor
MaxComponents == 3

\* length of the component list where a component can be attached twice
MaxAttached == 3

ZERO == <<0, 0, 0>>

UNIT_X == <<1, 0, 0>>

UNIT_Y == <<0, 1, 0>>

UNIT_Z == <<0, 0, 1>>

\* Quaternion::IDENTITY, as <<x, y, z, w>>
IDENTITY == <<0, 0, 0, 1>>

\* Quaternion::from_axis_angle(UNIT_Z, PI), the rotation TargetActor::new
\* sets: x, y, z = axis * sin(PI/2), w = cos(PI/2)
HALF_TURN_Z == <<0, 0, 1, 0>>

Positions == {<<x, 0, 0>> : x \in 0 .. MaxCoord}

Scales == 1 .. MaxScale

Rotations == {IDENTITY, HALF_TURN_Z}

VecAdd(u, v) == <<u[1] + v[1], u[2] + v[2], u[3] + v[3]>>

VecScale(u, k) == <<u[1] * k, u[2] * k, u[3] * k>>

\* Vector3::cross
cross(u, v) ==
    <<u[2] * v[3] - u[3] * v[2],
      u[3] * v[1] - u[1] * v[3],
      u[1] * v[2] - u[2] * v[1]>>

\* Vector3::transform: v + 2.0*cross(q.xyz, cross(q.xyz, v) + q.w*v)
transform(v, q) ==
    LET qv == <<q[1], q[2], q[3]>>
    IN  VecAdd(v, VecScale(cross(qv, VecAdd(cross(qv, v), VecScale(v, q[4]))), 2))

\* Matrix4::create_scale
create_scale(k) ==
    <<<<k, 0, 0, 0>>, <<0, k, 0, 0>>, <<0, 0, k, 0>>, <<0, 0, 0, 1>>>>

\* Matrix4::create_translation
create_translation(t) ==
    <<<<1, 0, 0, 0>>, <<0, 1, 0, 0>>, <<0, 0, 1, 0>>, <<t[1], t[2], t[3], 1>>>>

\* Matrix4::create_from_quaternion
create_from_quaternion(q) ==
    LET x == q[1]
        y == q[2]
        z == q[3]
        w == q[4]
    IN  <<<<1 - 2 * y * y - 2 * z * z, 2 * x * y + 2 * w * z,
            2 * x * z - 2 * w * y, 0>>,
          <<2 * x * y - 2 * w * z, 1 - 2 * x * x - 2 * z * z,
            2 * y * z + 2 * w * x, 0>>,
          <<2 * x * z + 2 * w * y, 2 * y * z - 2 * w * x,
            1 - 2 * x * x - 2 * y * y, 0>>,
          <<0, 0, 0, 1>>>>

\* impl MulAssign for Matrix4
mul_assign(a, b) ==
    [row \in 1 .. 4 |->
        [column \in 1 .. 4 |->
            a[row][1] * b[1][column] + a[row][2] * b[2][column]
                + a[row][3] * b[3][column] + a[row][4] * b[4][column]]]

\* Matrix4::new, the identity matrix
Matrix4_new == create_scale(1)

(***************************************************************************)
(* The actor and its components (actors/actor.rs)                          *)
(***************************************************************************)
ComponentIds == 0 .. (MaxComponents - 1)

\* the components BallActor::new constructs, in its order: MeshComponent
\* (update_order 100), BallMove (10), AudioComponent (100); any further one
\* is a BoxComponent (100)
update_order(c) == IF c = 1 THEN 10 ELSE 100

\* set_position that clears the dirty flag instead of setting it
set_position_clears(a, p) ==
    [a EXCEPT !.position = p, !.recompute_world_transform = FALSE]

\* Actor::set_position
set_position(a, p) ==
    [a EXCEPT !.position = p, !.recompute_world_transform = TRUE]

\* Actor::set_scale
set_scale(a, k) ==
    [a EXCEPT !.scale = k, !.recompute_world_transform = TRUE]

\* Actor::set_rotation
set_rotation(a, q) ==
    [a EXCEPT !.rotation = q, !.recompute_world_transform = TRUE]

\* Actor::set_state
set_state(a, st) == [a EXCEPT !.state = st]

\* Actor::set_recompute_world_transform
set_recompute_world_transform(a, b) ==
    [a EXCEPT !.recompute_world_transform = b]

\* Actor::set_world_transform: stores the matrix and sets the flag
set_world_transform(a, m) ==
    [a EXCEPT !.world_transform = m, !.recompute_world_transform = TRUE]

\* Actor::get_forward
get_forward(a) == transform(UNIT_X, a.rotation)

\* Actor::get_right
get_right(a) == transform(UNIT_Y, a.rotation)

\* the matrix compute_world_transform builds: scale, then rotate, then
\* translate
WorldMatrix(a) ==
    mul_assign(mul_assign(create_scale(a.scale),
                          create_from_quaternion(a.rotation)),
               create_translation(a.position))

\* Actor::compute_world_transform: the actor afterwards and the number of
\* on_update_world_transform calls it made
compute_world_transform(a) ==
    IF ~a.recompute_world_transform
    THEN [actor |-> a, notified |-> 0]
    ELSE LET a1 == set_recompute_world_transform(a, FALSE)
             a2 == set_world_transform(a1, WorldMatrix(a1))
         IN  [actor |-> a2, notified |-> Len(a2.components)]

\* Actor::add_component (its debug_assert holds: a component is Active when
\* its constructor attaches it)
add_component(a, c) == [a EXCEPT !.components = Append(@, c)]

\* MoveComponent::update (update_move_component): a new position when the
\* forward speed is not near zero
component_update(c, speed, owner_info) ==
    IF update_order(c) = 10 /\ speed # 0
    THEN [position |-> <<VecAdd(owner_info.position,
                                VecScale(owner_info.forward, speed))>>,
          rotation |-> <<>>]
    ELSE [position |-> <<>>, rotation |-> <<>>]

RECURSIVE ApplyChanges(_, _)
\* Actor::update_component, second loop: apply the collected changes
ApplyChanges(a, changes) ==
    IF changes = <<>> THEN a
    ELSE LET ch == Head(changes)
             a1 == IF ch.position # <<>>
                   THEN set_position(a, ch.position[1]) ELSE a
             a2 == IF ch.rotation # <<>>
                   THEN set_rotation(a1, ch.rotation[1]) ELSE a1
         IN  ApplyChanges(a2, Tail(changes))

\* the tuple actor_info of Actor::update_component
get_actor_info(a) ==
    [position |-> a.position, rotation |-> a.rotation,
     forward |-> get_forward(a), world_transform |-> a.world_transform,
     right |-> get_right(a)]

\* an update_component that applies the change of a component before it
\* updates the next one
update_component_at_once(a, speed) ==
    LET RECURSIVE infos_from(_, _)
        infos_from(b, i) ==
            IF i > Len(b.components) THEN <<>>
            ELSE LET info == get_actor_info(b)
                     ch == component_update(b.components[i], speed, info)
                 IN  <<info>> \o infos_from(ApplyChanges(b, <<ch>>), i + 1)
        RECURSIVE actor_from(_, _)
        actor_from(b, i) ==
            IF i > Len(b.components) THEN b
            ELSE LET ch == component_update(b.components[i], speed,
                                            get_actor_info(b))
                 IN  actor_from(ApplyChanges(b, <<ch>>), i + 1)
        infos == infos_from(a, 1)
    IN  [actor |-> actor_from(a, 1),
         log   |-> [i \in 1 .. Len(a.components) |->
                       update_order(a.components[i])],
         infos |-> infos,
         set   |-> \E i \in 1 .. Len(infos) :
                       LET ch == component_update(a.components[i], speed,
                                                  infos[i])
                       IN  ch.position # <<>> \/ ch.rotation # <<>>]

\* Actor::update_component: the actor afterwards, the update_order of every
\* component updated and the owner info it received, in call order, and
\* whether a setter was called
update_component(a, speed) ==
    LET actor_info == get_actor_info(a)
        changes == [i \in 1 .. Len(a.components) |->
                       component_update(a.components[i], speed, actor_info)]
    IN  [actor |-> ApplyChanges(a, changes),
         log   |-> [i \in 1 .. Len(a.components) |->
                       update_order(a.components[i])],
         infos |-> [i \in 1 .. Len(a.components) |-> actor_info],
         set   |-> \E i \in 1 .. Len(changes) :
                       changes[i].position # <<>> \/ changes[i].rotation # <<>>]

\* the actor stays inside the modelled coordinates
InRange(a) == a.position \in Positions

Min(x, y) == IF x < y THEN x ELSE y

\* a debug_assert! has panicked: the program is over
panicked == assertion # <<>> /\ assertion[2] = "failed"

\* debug_assert! with the check compiled out of every build
debug_assert_compiled_out(cond, debug) == "passed"

\* debug_assert!(cond) in a build with (debug) or without debug assertions
debug_assert(cond, debug) ==
    IF cond THEN "passed" ELSE IF debug THEN "failed" ELSE "skipped"

\* remove_component that removes the first component of the list
remove_component_first(a, c) ==
    [a EXCEPT !.components = IF @ = <<>> THEN @ ELSE Tail(@)]

\* Actor::remove_component, after its debug_assert
remove_component(a, c) ==
    [a EXCEPT !.components = Retain(@, ComponentIds \ {c})]

(***************************************************************************)
(* Operations on the actor                                                 *)
(***************************************************************************)
SetPosition ==
    /\ ~panicked
    /\ \E p \in Positions : actor' = set_position(actor, p)
    /\ computes_since_set' = 0
    /\ same_matrix' = TRUE
    /\ notified_last' = 0
    /\ UNCHANGED <<update_log, update_actor_called>>
    /\ UNCHANGED <<comp_state, debug_assertions, assertion>>
    /\ UNCHANGED varsNotActor

SetScale ==
    /\ ~panicked
    /\ \E k \in Scales : actor' = set_scale(actor, k)
    /\ computes_since_set' = 0
    /\ same_matrix' = TRUE
    /\ notified_last' = 0
    /\ UNCHANGED <<update_log, update_actor_called>>
    /\ UNCHANGED <<comp_state, debug_assertions, assertion>>
    /\ UNCHANGED varsNotActor

SetRotation ==
    /\ ~panicked
    /\ \E q \in Rotations : actor' = set_rotation(actor, q)
    /\ computes_since_set' = 0
    /\ same_matrix' = TRUE
    /\ notified_last' = 0
    /\ UNCHANGED <<update_log, update_actor_called>>
    /\ UNCHANGED <<comp_state, debug_assertions, assertion>>
    /\ UNCHANGED varsNotActor

SetState ==
    /\ ~panicked
    /\ \E st \in {"Active", "Paused", "Dead"} : actor' = set_state(actor, st)
    /\ UNCHANGED <<update_log, update_actor_called, computes_since_set,
                   same_matrix, notified_last>>
    /\ UNCHANGED <<comp_state, debug_assertions, assertion>>
    /\ UNCHANGED varsNotActor

\* XxxComponent::new attaches the component to its owner
AddComponent ==
    /\ ~panicked
    /\ \E c \in ComponentIds :
          /\ comp_state[c] = "None"
          /\ comp_state' = [comp_state EXCEPT ![c] = "Active"]
          /\ actor' = add_component(actor, c)
    /\ UNCHANGED <<update_log, update_actor_called, computes_since_set,
                   same_matrix, notified_last>>
    /\ UNCHANGED <<debug_assertions, assertion>>
    /\ UNCHANGED varsNotActor

\* a call of compute_world_transform from outside update (Game::update_game
\* on a pending actor, FPSActor::fix_collision)
ComputeWorldTransform ==
    /\ ~panicked
    /\ LET r == compute_world_transform(actor)
           n == Min(2, computes_since_set + 1)
       IN  /\ actor' = r.actor
           /\ computes_since_set' = n
           /\ notified_last' = IF n = 2 THEN r.notified ELSE 0
           /\ same_matrix' =
                  IF n = 2
                  THEN r.actor.world_transform = actor.world_transform
                  ELSE TRUE
    /\ UNCHANGED <<update_log, update_actor_called>>
    /\ UNCHANGED <<comp_state, debug_assertions, assertion>>
    /\ UNCHANGED varsNotActor

\* Actor::update entered whatever the state of the actor
update_any_state(a, speed) ==
    LET r1 == compute_world_transform(a)
        u  == update_component(r1.actor, speed)
        r2 == compute_world_transform(u.actor)
    IN  [actor |-> r2.actor, log |-> u.log, update_actor |-> TRUE,
         set |-> u.set, before_last |-> u.actor, notified |-> r2.notified]

\* Actor::update: for an Active actor compute_world_transform,
\* update_component, update_actor (empty for DefaultActor) and
\* compute_world_transform again; the actor afterwards, the update_order of
\* the components updated, whether update_actor was called, whether a
\* setter was called, the actor before the last compute_world_transform
\* and the components that one notified
update(a, speed) ==
    IF a.state = "Active"
    THEN LET r1 == compute_world_transform(a)
             u  == update_component(r1.actor, speed)
             r2 == compute_world_transform(u.actor)
         IN  [actor |-> r2.actor, log |-> u.log, update_actor |-> TRUE,
              set |-> u.set, before_last |-> u.actor,
              notified |-> r2.notified]
    ELSE [actor |-> a, log |-> <<>>, update_actor |-> FALSE, set |-> FALSE,
          before_last |-> a, notified |-> 0]

\* Actor::update(delta_time); speed is the forward speed of the move
\* component times delta_time
Update ==
    /\ ~panicked
    /\ \E speed \in {0, 1} :
          LET r == update(actor, speed)
              n == IF r.set THEN 1 ELSE Min(2, computes_since_set + 2)
          IN  /\ ~r.update_actor => speed = 0
              /\ InRange(r.actor)
              /\ actor' = r.actor
              /\ update_log' = r.log
              /\ update_actor_called' = r.update_actor
              /\ IF r.update_actor
                 THEN /\ computes_since_set' = n
                      /\ notified_last' = IF n = 2 THEN r.notified ELSE 0
                      /\ same_matrix' =
                             IF n = 2
                             THEN r.actor.world_transform
                                      = r.before_last.world_transform
                             ELSE TRUE
                 ELSE UNCHANGED <<computes_since_set, same_matrix,
                                  notified_last>>
    /\ UNCHANGED <<comp_state, debug_assertions, assertion>>
    /\ UNCHANGED varsNotActor

\* Actor::update_component on an active actor, with what each component
\* received
UpdateComponent ==
    /\ ~panicked
    /\ actor.state = "Active"
    /\ \E speed \in {0, 1} :
          LET r == update_component(actor, speed)
          IN  /\ InRange(r.actor)
              /\ actor' = r.actor
              /\ update_log' = r.log
              /\ pass_entry' = <<get_actor_info(actor)>>
              /\ pass_infos' = r.infos
              /\ IF r.set
                 THEN /\ computes_since_set' = 0
                      /\ same_matrix' = TRUE
                      /\ notified_last' = 0
                 ELSE UNCHANGED <<computes_since_set, same_matrix,
                                  notified_last>>
    /\ UNCHANGED <<update_actor_called, comp_state, debug_assertions,
                   assertion>>
    /\ UNCHANGED <<varsEM, varsGeom, varsPhys, varsAabb, varsSeg, varsSearch,
                   varsAI, varsIds, varsGrid, varsFix>>

\* Component::set_state(State::Dead)
ComponentSetStateDead ==
    /\ ~panicked
    /\ \E c \in ComponentIds :
          /\ comp_state[c] = "Active"
          /\ comp_state' = [comp_state EXCEPT ![c] = "Dead"]
    /\ UNCHANGED <<actor, update_log, update_actor_called, computes_since_set, same_matrix,
                   notified_last, debug_assertions, assertion>>
    /\ UNCHANGED varsNotActor

\* Actor::add_component called with a component constructed before
CallAddComponent ==
    /\ ~panicked
    /\ Len(actor.components) < MaxAttached
    /\ \E c \in ComponentIds :
          /\ comp_state[c] # "None"
          /\ LET r == debug_assert(comp_state[c] = "Active", debug_assertions)
             IN  /\ assertion' = IF r = "passed" THEN assertion
                                 ELSE <<"add_component", r>>
                 /\ actor' = IF r = "failed" THEN actor
                             ELSE add_component(actor, c)
    /\ UNCHANGED <<update_log, update_actor_called, computes_since_set, same_matrix,
                   notified_last, comp_state, debug_assertions>>
    /\ UNCHANGED varsNotActor

\* Actor::remove_component(c)
CallRemoveComponentOf(c) ==
    /\ comp_state[c] # "None"
    /\ LET r == debug_assert(comp_state[c] = "Dead", debug_assertions)
       IN  /\ assertion' = IF r = "passed" THEN assertion
                           ELSE <<"remove_component", r>>
           /\ actor' = IF r = "failed" THEN actor
                       ELSE remove_component(actor, c)
    /\ UNCHANGED <<update_log, update_actor_called, computes_since_set, same_matrix,
                   notified_last, comp_state, debug_assertions>>
    /\ UNCHANGED varsNotActor

\* Actor::remove_component
CallRemoveComponent ==
    /\ ~panicked
    /\ \E c \in ComponentIds : CallRemoveComponentOf(c)

\* component::remove_component(this): debug_assert Active, set_state(Dead),
\* owner.remove_component(this), whose own debug_assert then holds
ComponentRemove ==
    /\ ~panicked
    /\ \E c \in ComponentIds :
          /\ comp_state[c] # "None"
          /\ LET r == debug_assert(comp_state[c] = "Active", debug_assertions)
             IN  /\ assertion' = IF r = "passed" THEN assertion
                                 ELSE <<"component::remove_component", r>>
                 /\ comp_state' = IF r = "failed" THEN comp_state
                                  ELSE [comp_state EXCEPT ![c] = "Dead"]
                 /\ actor' = IF r = "failed" THEN actor
                             ELSE remove_component(actor, c)
    /\ UNCHANGED <<update_log, update_actor_called, computes_since_set, same_matrix,
                   notified_last, debug_assertions>>
    /\ UNCHANGED varsNotActor

\* TestActor::new: Active, identity matrix, dirty flag set, at the origin,
\* scale 1, no rotation, no components
InitActor ==
    /\ actor = [state |-> "Active",
                world_transform |-> Matrix4_new,
                recompute_world_transform |-> TRUE,
                position |-> ZERO,
                scale |-> 1,
                rotation |-> IDENTITY,
                components |-> <<>>]
    /\ update_log = <<>>
    /\ update_actor_called = FALSE
    /\ computes_since_set = 0
    /\ same_matrix = TRUE
    /\ notified_last = 0
    /\ comp_state = [c \in ComponentIds |-> "None"]
    /\ debug_assertions \in BOOLEAN
    /\ assertion = <<>>

NextActor ==
    \/ SetPosition
    \/ SetScale
    \/ SetRotation
    \/ SetState
    \/ AddComponent
    \/ ComputeWorldTransform
    \/ Update

\* passes of update_component over the components of one actor, which is
\* turned round between the passes
NextPass == AddComponent \/ SetRotation \/ UpdateComponent

InitPass ==
    /\ pass_entry = <<>>
    /\ pass_infos = <<>>

\* the component list of one actor: attaching and detaching
NextComp ==
    \/ AddComponent
    \/ ComponentSetStateDead
    \/ CallAddComponent
    \/ CallRemoveComponent
    \/ ComponentRemove

(***************************************************************************)
(* Collision queries: AABB and LineSegment (collision/aabb.rs,             *)
(* collision/line_segment.rs) and PhysWorld::segment_cast. Coordinates    *)
(* are integers; the parameter t of a point on a segment is a fraction    *)
(* <<numer, denom>> with denom >= 0, compared by cross multiplication, and *)
(* a point on a segment is a record of three numerators over one           *)
(* denominator. With coordinates in 0 .. 2 every t is a multiple of 1/2,  *)
(* which f32 holds exactly.                                                *)
(***************************************************************************)
NEGATIVE_UNIT_X == <<-1, 0, 0>>

NEGATIVE_UNIT_Y == <<0, -1, 0>>

NEGATIVE_UNIT_Z == <<0, 0, -1>>

\* f32::INFINITY as a fraction: greater than every t
INFINITY == <<1, 0>>

\* Option: None and Some(x)
None == <<>>

Some(x) == <<x>>

Coords == 0 .. GridMax

Points == Coords \X Coords \X Coords

\* AABB::new
AABB_new(min, max) == [min |-> min, max |-> max]

\* the world boxes a BoxComponent can hold: min below max on every axis
WorldBoxes ==
    {AABB_new(c[1], c[2]) :
        c \in {d \in Points \X Points :
                  \A k \in 1 .. 3 : /\ d[1][k] < d[2][k]
                                    /\ d[2][k] - d[1][k] <= MaxSide}}

\* LineSegment::new
LineSegment_new(start, end) == [start |-> start, end |-> end]

LineSegments == {LineSegment_new(s, e) : s \in Points, e \in Points}

\* numer / denom of f32, as a fraction with a positive denominator
Div(numer, denom) ==
    IF denom < 0 THEN <<0 - numer, 0 - denom>> ELSE <<numer, denom>>

\* a < b and a <= b on fractions
Less(a, b) == a[1] * b[2] < b[1] * a[2]

LessEq(a, b) == a[1] * b[2] <= b[1] * a[2]

Abs(x) == IF x < 0 THEN 0 - x ELSE x

\* math::basic::near_zero(value, epsilon), epsilon a fraction
near_zero(value, epsilon) == Abs(value) * epsilon[2] <= epsilon[1]

\* LineSegment::point_on_segment: start + (end - start) * t
point_on_segment(l, t) ==
    [num |-> [k \in 1 .. 3 |->
                 l.start[k] * t[2] + (l.end[k] - l.start[k]) * t[1]],
     den |-> t[2]]

\* AABB::contains; the last comparison reads point.x against max.z
contains(aabb, point) ==
    LET outside == \/ point.num[1] < aabb.min[1] * point.den
                   \/ point.num[2] < aabb.min[2] * point.den
                   \/ point.num[3] < aabb.min[3] * point.den
                   \/ point.num[1] > aabb.max[1] * point.den
                   \/ point.num[2] > aabb.max[2] * point.den
                   \/ point.num[1] > aabb.max[3] * point.den
    IN  ~outside

\* LineSegment::test_side_plane: out with (t, norm) pushed when the plane
\* is crossed at a t in [0, 1]
test_side_plane(start, end, negd, norm, out) ==
    LET denom == end - start
        numer == (0 - start) + negd
        t == Div(numer, denom)
    IN  IF near_zero(denom, <<1, 1000>>) THEN out
        ELSE IF LessEq(<<0, 1>>, t) /\ LessEq(t, <<1, 1>>)
             THEN Append(out, <<t, norm>>)
             ELSE out

\* one step of the stable sort: e goes behind every element whose t is not
\* greater than its own
RECURSIVE sort_insert(_, _)
sort_insert(sorted, e) ==
    IF sorted = <<>> THEN <<e>>
    ELSE IF Less(e[1], Head(sorted)[1]) THEN <<e>> \o sorted
    ELSE <<Head(sorted)>> \o sort_insert(Tail(sorted), e)

\* t_values.sort_by(|a, b| a.0.partial_cmp(&b.0)): stable, ascending t
RECURSIVE sort_by(_)
sort_by(t_values) ==
    IF t_values = <<>> THEN <<>>
    ELSE sort_insert(sort_by(SubSeq(t_values, 1, Len(t_values) - 1)),
                     t_values[Len(t_values)])

\* the loop that closes LineSegment::intersect_aabb
RECURSIVE first_contained(_, _, _)
first_contained(l, aabb, t_values) ==
    IF t_values = <<>> THEN None
    ELSE IF contains(aabb, point_on_segment(l, Head(t_values)[1]))
         THEN Some(Head(t_values))
         ELSE first_contained(l, aabb, Tail(t_values))

\* LineSegment::intersect_aabb
intersect_aabb(l, aabb) ==
    LET t1 == test_side_plane(l.start[1], l.end[1], aabb.min[1],
                              NEGATIVE_UNIT_X, <<>>)
        t2 == test_side_plane(l.start[1], l.end[1], aabb.max[1], UNIT_X, t1)
        t3 == test_side_plane(l.start[2], l.end[2], aabb.min[2],
                              NEGATIVE_UNIT_Y, t2)
        t4 == test_side_plane(l.start[2], l.end[2], aabb.max[2], UNIT_Y, t3)
        t5 == test_side_plane(l.start[3], l.end[3], aabb.min[3],
                              NEGATIVE_UNIT_Z, t4)
        t6 == test_side_plane(l.start[3], l.end[3], aabb.max[3], UNIT_Z, t5)
    IN  first_contained(l, aabb, sort_by(t6))

\* the loop of PhysWorld::segment_cast from box i on; box_component is the
\* place of the box in the registry
RECURSIVE segment_cast_from(_, _, _, _, _)
segment_cast_from(bs, l, i, closest_t, result) ==
    IF i > Len(bs) THEN result
    ELSE LET r == intersect_aabb(l, bs[i])
         IN  IF r # None /\ Less(r[1][1], closest_t)
             THEN segment_cast_from(bs, l, i + 1, r[1][1],
                      Some([point |-> point_on_segment(l, r[1][1]),
                            normal |-> r[1][2],
                            box_component |-> i]))
             ELSE segment_cast_from(bs, l, i + 1, closest_t, result)

\* PhysWorld::segment_cast
segment_cast(bs, l) == segment_cast_from(bs, l, 1, INFINITY, None)

\* PhysWorld::add_box, called by BoxComponent::new
AddBox ==
    /\ line = <<>>
    /\ Len(world_boxes) < MaxBoxes
    /\ \E b \in WorldBoxes : world_boxes' = Append(world_boxes, b)
    /\ UNCHANGED <<line, hits, collision_info>>
    /\ UNCHANGED varsNotGeom

\* BallMove::update up to the return of segment_cast
SegmentCast ==
    /\ line = <<>>
    /\ \E l \in LineSegments :
          /\ line' = <<l>>
          /\ hits' = [i \in 1 .. Len(world_boxes) |->
                         intersect_aabb(l, world_boxes[i])]
          /\ collision_info' = segment_cast(world_boxes, l)
    /\ UNCHANGED world_boxes
    /\ UNCHANGED varsNotGeom

\* BallMove::update returns: the segment and the collision info are dropped
BallMoveReturn ==
    /\ line # <<>>
    /\ line' = <<>>
    /\ hits' = <<>>
    /\ collision_info' = None
    /\ UNCHANGED world_boxes
    /\ UNCHANGED varsNotGeom

\* PhysWorld::new
InitGeom ==
    /\ world_boxes = <<>>
    /\ line = <<>>
    /\ hits = <<>>
    /\ collision_info = None

NextGeom ==
    \/ AddBox
    \/ SegmentCast
    \/ BallMoveReturn

(***************************************************************************)
(* The box registry of PhysWorld under its whole interface                 *)
(* (system/phys_world.rs): registration, removal, flush and the queries    *)
(***************************************************************************)
\* the world boxes of this part: flat boxes with min <= max on x, at y = 0
\* or, when they have an extent, at y = GridMax
RegistryBoxes ==
    {AABB_new(<<c[1], c[3], 0>>, <<c[2], c[3], 0>>) :
        c \in {d \in Coords \X Coords \X {0, GridMax} :
                  /\ d[1] <= d[2]
                  /\ d[3] = GridMax => d[1] < d[2]}}

\* the segments of this part: along the x axis, in both directions
RegistryLines ==
    {LineSegment_new(<<c[1], 0, 0>>, <<c[2], 0, 0>>) :
        c \in {d \in {0, GridMax} \X {0, GridMax} : d[1] # d[2]}}

\* component::generate_id: ids are handed out in order from 0
next_component_id == Cardinality({c \in CompIds : component_state[c] # "None"})

\* BoxComponent::get_owner: the actor constructed with the component
get_owner(c) == c

\* the world boxes of the registered components, in scan order
RegisteredBoxes(bs, wb) == [i \in 1 .. Len(bs) |-> wb[bs[i]]]

\* AABB::intersect
intersect_one_sided(a, b) ==
    LET no == \/ a.max[1] < b.min[1]
              \/ a.max[2] < b.min[2]
              \/ a.max[3] < b.min[3]
    IN  ~no

\* AABB::intersect
intersect(a, b) ==
    LET no == \/ a.max[1] < b.min[1]
              \/ a.max[2] < b.min[2]
              \/ a.max[3] < b.min[3]
              \/ b.max[1] < a.min[1]
              \/ b.max[2] < a.min[2]
              \/ b.max[3] < a.min[3]
    IN  ~no

\* PhysWorld::add_box
add_box(bs, c) == Append(bs, c)

\* PhysWorld::remove_box
remove_box(bs, c) == Retain(bs, CompIds \ {c})

\* the loops of PhysWorld::test_pairwise from (i, j) on, 1-based; calls is
\* the list of the calls of f made so far
RECURSIVE test_pairwise_from(_, _, _, _, _)
test_pairwise_from(bs, wb, i, j, out) ==
    IF i > Len(bs) THEN out
    ELSE IF j > Len(bs) THEN test_pairwise_from(bs, wb, i + 1, i + 2, out)
    ELSE test_pairwise_from(bs, wb, i, j + 1,
             IF intersect(wb[bs[i]], wb[bs[j]])
             THEN Append(out, <<get_owner(bs[i]), get_owner(bs[j])>>)
             ELSE out)

\* PhysWorld::test_pairwise
test_pairwise(bs, wb) == test_pairwise_from(bs, wb, 1, 2, <<>>)

\* one step of the stable sort of the registry by min.x
RECURSIVE sort_insert_min_x(_, _, _)
sort_insert_min_x(sorted, wb, c) ==
    IF sorted = <<>> THEN <<c>>
    ELSE IF wb[c].min[1] < wb[Head(sorted)].min[1] THEN <<c>> \o sorted
    ELSE <<Head(sorted)>> \o sort_insert_min_x(Tail(sorted), wb, c)

\* a sweep that leaves the registry in registration order
sort_by_min_x_skipped(bs, wb) == bs

\* self.boxes.sort_by(min.x): stable, ascending
RECURSIVE sort_by_min_x(_, _)
sort_by_min_x(bs, wb) ==
    IF bs = <<>> THEN <<>>
    ELSE sort_insert_min_x(sort_by_min_x(SubSeq(bs, 1, Len(bs) - 1), wb),
                           wb, bs[Len(bs)])

\* the loops of PhysWorld::test_sweep_and_prune over the sorted registry
\* from (i, j) on; the inner loop breaks at the first box whose min.x is
\* past the max.x of box i
RECURSIVE sweep_from(_, _, _, _, _)
sweep_from(bs, wb, i, j, out) ==
    IF i > Len(bs) THEN out
    ELSE IF j > Len(bs) THEN sweep_from(bs, wb, i + 1, i + 2, out)
    ELSE IF wb[bs[j]].min[1] > wb[bs[i]].max[1]
         THEN sweep_from(bs, wb, i + 1, i + 2, out)
    ELSE sweep_from(bs, wb, i, j + 1,
             IF intersect(wb[bs[i]], wb[bs[j]])
             THEN Append(out, <<get_owner(bs[i]), get_owner(bs[j])>>)
             ELSE out)

\* PhysWorld::test_sweep_and_prune: the registry it leaves and its calls
test_sweep_and_prune(bs, wb) ==
    [boxes |-> sort_by_min_x(bs, wb),
     calls |-> sweep_from(sort_by_min_x(bs, wb), wb, 1, 2, <<>>)]

\* no query of the registry is on record
NoQuery ==
    /\ last_query' = "none"
    /\ boxes_before' = <<>>
    /\ calls' = <<>>
    /\ cast' = None

\* BoxComponent::new, and the first on_update_world_transform, which sets
\* the world box
NewBoxComponent ==
    /\ next_component_id \in CompIds
    /\ Len(boxes) < MaxRegistry
    /\ \E b \in RegistryBoxes :
          world_box' = [world_box EXCEPT ![next_component_id] = b]
    /\ component_state' =
           [component_state EXCEPT ![next_component_id] = "Active"]
    /\ boxes' = add_box(boxes, next_component_id)
    /\ NoQuery
    /\ UNCHANGED varsNotPhys

\* PhysWorld::add_box called with a component that was constructed before
CallAddBox ==
    /\ Len(boxes) < MaxRegistry
    /\ \E c \in CompIds :
          /\ component_state[c] # "None"
          /\ boxes' = add_box(boxes, c)
    /\ NoQuery
    /\ UNCHANGED <<component_state, world_box>>
    /\ UNCHANGED varsNotPhys

\* PhysWorld::remove_box
CallRemoveBox ==
    /\ \E c \in CompIds :
          /\ component_state[c] # "None"
          /\ boxes' = remove_box(boxes, c)
    /\ NoQuery
    /\ UNCHANGED <<component_state, world_box>>
    /\ UNCHANGED varsNotPhys

\* Component::set_state(State::Dead), as remove_actor calls it
SetComponentDead ==
    /\ \E c \in CompIds :
          /\ component_state[c] = "Active"
          /\ component_state' = [component_state EXCEPT ![c] = "Dead"]
    /\ NoQuery
    /\ UNCHANGED <<boxes, world_box>>
    /\ UNCHANGED varsNotPhys

\* PhysWorld::flush_boxes
CallFlushBoxes ==
    /\ boxes' = flush_boxes(boxes, component_state)
    /\ NoQuery
    /\ UNCHANGED <<component_state, world_box>>
    /\ UNCHANGED varsNotPhys

\* PhysWorld::test_pairwise
CallTestPairwise ==
    /\ last_query' = "test_pairwise"
    /\ boxes_before' = boxes
    /\ calls' = test_pairwise(boxes, world_box)
    /\ cast' = None
    /\ UNCHANGED <<boxes, component_state, world_box>>
    /\ UNCHANGED varsNotPhys

\* PhysWorld::test_sweep_and_prune
CallTestSweepAndPrune ==
    /\ last_query' = "test_sweep_and_prune"
    /\ boxes_before' = boxes
    /\ boxes' = test_sweep_and_prune(boxes, world_box).boxes
    /\ calls' = test_sweep_and_prune(boxes, world_box).calls
    /\ cast' = None
    /\ UNCHANGED <<component_state, world_box>>
    /\ UNCHANGED varsNotPhys

\* PhysWorld::segment_cast
CallSegmentCast ==
    /\ last_query' = "segment_cast"
    /\ boxes_before' = boxes
    /\ calls' = <<>>
    /\ \E l \in RegistryLines :
          cast' = segment_cast(RegisteredBoxes(boxes, world_box), l)
    /\ UNCHANGED <<boxes, component_state, world_box>>
    /\ UNCHANGED varsNotPhys

\* the boxes of components that are not constructed yet are as
\* BoxComponent::new makes them; component 0 is the player's
InitPhys ==
    /\ world_box = [c \in CompIds |-> AABB_new(ZERO, ZERO)]
    /\ last_query = "none"
    /\ boxes_before = <<>>
    /\ calls = <<>>
    /\ cast = None

NextPhys ==
    \/ NewBoxComponent
    \/ CallAddBox
    \/ CallRemoveBox
    \/ SetComponentDead
    \/ CallFlushBoxes
    \/ CallTestPairwise
    \/ CallTestSweepAndPrune
    \/ CallSegmentCast

(***************************************************************************)
(* A geometry primitive called on its own, as the tests of                 *)
(* collision/aabb.rs call it                                               *)
(***************************************************************************)
\* a Vector3 with integer coordinates as a point
Vector3_new(p) == [num |-> p, den |-> 1]

\* aabb.contains(&point), as in test_contains and test_not_contains
\* a test makes one call on the boxes and points it constructed
NoCall == contained = <<>> /\ intersected = <<>>

Contains ==
    /\ NoCall
    /\ \E b \in WorldBoxes, p \in Points :
          contained' = <<[aabb |-> b, point |-> p,
                          result |-> contains(b, Vector3_new(p))]>>
    /\ intersected' = <<>>
    /\ UNCHANGED varsNotAabb

\* the boxes of the intersect tests: min at or below max on every axis
AabbBoxes ==
    {AABB_new(c[1], c[2]) :
        c \in {d \in Points \X Points :
                  \A k \in 1 .. 3 : /\ d[1][k] <= d[2][k]
                                    /\ d[2][k] - d[1][k] <= MaxSide}}

\* a.intersect(&b), and the same call with the two boxes swapped
Intersect ==
    /\ NoCall
    /\ \E a \in AabbBoxes, b \in AabbBoxes :
          intersected' = <<[a |-> a, b |-> b, result |-> intersect(a, b),
                            swapped |-> intersect(b, a)]>>
    /\ contained' = <<>>
    /\ UNCHANGED varsNotAabb

InitAabb ==
    /\ contained = <<>>
    /\ intersected = <<>>

NextAabb == Contains \/ Intersect

(***************************************************************************)
(* Segment and capsule queries called on their own, as the tests of        *)
(* collision/capsule.rs call them.  An f32 is a fraction <<numer, denom>>; *)
(* a denominator of 0 is what a division by 0.0 leaves: an infinity, or    *)
(* NaN for 0.0 / 0.0.                                                      *)
(***************************************************************************)
\* largest radius of a capsule
MaxRadius == 1

Radii == 0 .. MaxRadius

VecSub(u, v) == <<u[1] - v[1], u[2] - v[2], u[3] - v[3]>>

\* Vector3::dot
dot(u, v) == u[1] * v[1] + u[2] * v[2] + u[3] * v[3]

\* Vector3::length_sq
length_sq(u) == dot(u, u)

\* an f32 that is neither an infinity nor NaN
is_finite(x) == x[2] # 0

\* f32 <=: false as soon as the left side is NaN or an infinity
f32_le(x, y) == is_finite(x) /\ LessEq(x, y)

\* Capsule::new
Capsule_new(start, end, radius) ==
    [segment |-> LineSegment_new(start, end), radius |-> radius]

\* sc and tc of min_dist_sq_line: 0.0 for a numerator near zero, else the
\* quotient
guarded_quotient(n, d) ==
    IF near_zero(n, <<1, 1000>>) THEN <<0, 1>> ELSE Div(n, d)

\* the recomputation of sn and sd for an edge of t, x being -d or -d + b
recompute_sc(p, x, a) ==
    IF x < 0 THEN [p EXCEPT !.sn = 0]
    ELSE IF x > a THEN [p EXCEPT !.sn = p.sd]
    ELSE [p EXCEPT !.sn = x, !.sd = a]

\* LineSegment::min_dist_sq_line
min_dist_sq_line(self, other) ==
    LET u == VecSub(self.end, other.start)
        v == VecSub(other.end, self.start)
        w == VecSub(self.start, other.start)
        a == dot(u, u)
        b == dot(u, v)
        c == dot(v, v)
        d == dot(u, w)
        e == dot(v, w)
        discriminant == a * c - b * b
        all == [sn |-> discriminant, sd |-> discriminant,
                tn |-> discriminant, td |-> discriminant]
        p1 == IF near_zero(discriminant, <<1, 1000>>)
              THEN [sn |-> 0, sd |-> 1, tn |-> e, td |-> c]
              ELSE LET sn == b * e - c * d
                       tn == a * e - b * d
                   IN  IF sn < 0
                       THEN [all EXCEPT !.sn = 0, !.tn = e, !.td = c]
                       ELSE IF sn > all.sd
                       THEN [all EXCEPT !.sn = all.sd, !.tn = e + b, !.td = c]
                       ELSE [all EXCEPT !.sn = sn, !.tn = tn]
        clamp_t(p) ==
            IF p.tn < 0
            THEN recompute_sc([p EXCEPT !.tn = 0], 0 - d, a)
            ELSE IF p.tn > p.td
            THEN recompute_sc([p EXCEPT !.tn = p.td], (0 - d) + b, a)
            ELSE p
        dist_sq(p) ==
            LET sc == guarded_quotient(p.sn, p.sd)
                tc == guarded_quotient(p.tn, p.td)
                dp == [k \in 1 .. 3 |->
                          w[k] * sc[2] * tc[2] + u[k] * sc[1] * tc[2]
                          - v[k] * tc[1] * sc[2]]
            IN  <<length_sq(dp), sc[2] * tc[2] * sc[2] * tc[2]>>
    IN  CHOOSE r \in {dist_sq(p2) : p2 \in {clamp_t(p) : p \in {p1}}} : TRUE

\* Capsule::intersect
capsule_intersect(self, other) ==
    \E line_dist_sq \in {min_dist_sq_line(self.segment, other.segment)} :
        LET sum_radius == self.radius + other.radius
        IN  f32_le(line_dist_sq, <<sum_radius * sum_radius, 1>>)

\* Capsule::intersect(&a, &b), the first capsule starting at Vector3::ZERO
CapsuleIntersect ==
    /\ seg_call = <<>>
    /\ \E e1 \in Points, s2 \in Points, e2 \in Points, ra \in Radii,
          rb \in Radii :
          LET a == Capsule_new(ZERO, e1, ra)
              b == Capsule_new(s2, e2, rb)
          IN  seg_call' = <<[op |-> "Capsule::intersect", a |-> a, b |-> b,
                             result |-> capsule_intersect(a, b)]>>
    /\ UNCHANGED varsNotSeg

\* LineSegment::min_dist_sq; scaler is the quotient of the two dot products,
\* taken whatever the divisor is
min_dist_sq(self, point) ==
    LET ab == VecSub(self.end, self.start)
        ba == VecScale(ab, -1)
        ac == VecSub(point, self.start)
        bc == VecSub(point, self.end)
        scaler == Div(dot(ac, ab), dot(ab, ab))
    IN  IF dot(ab, ac) < 0 THEN <<length_sq(ac), 1>>
        ELSE IF dot(ba, bc) < 0 THEN <<length_sq(bc), 1>>
        ELSE <<length_sq(VecSub(VecScale(ac, scaler[2]),
                                VecScale(ab, scaler[1]))),
               scaler[2] * scaler[2]>>

\* Sphere::new
Sphere_new(center, radius) == [center |-> center, radius |-> radius]

\* f32::sqrt of a square number
sqrt(x) == CHOOSE r \in 0 .. x : r * r = x

\* the discriminant of LineSegment::intersect_sphere
sphere_discriminant(self, sphere) ==
    LET x == VecSub(self.start, sphere.center)
        y == VecSub(self.end, self.start)
        a == dot(y, y)
        b == 2 * dot(x, y)
        c == dot(x, x) - sphere.radius * sphere.radius
    IN  b * b - 4 * a * c

\* LineSegment::intersect_sphere: the Option it returns, with the two
\* quotients t_min and t_max it computed on the way (<<>> when it returned
\* before the divisions)
intersect_sphere(self, sphere) ==
    LET x == VecSub(self.start, sphere.center)
        y == VecSub(self.end, self.start)
        a == dot(y, y)
        b == 2 * dot(x, y)
        discriminant == sphere_discriminant(self, sphere)
        root == sqrt(discriminant)
        t_min == Div((0 - b) - root, 2 * a)
        t_max == Div((0 - b) + root, 2 * a)
    IN  IF discriminant < 0 THEN [t |-> None, quotients |-> <<>>]
        ELSE [t |-> IF is_finite(t_min) /\ Less(<<0, 1>>, t_min)
                       /\ LessEq(t_min, <<1, 1>>)
                    THEN Some(t_min)
                    ELSE IF is_finite(t_max) /\ LessEq(<<0, 1>>, t_max)
                            /\ LessEq(t_max, <<1, 1>>)
                    THEN Some(t_max)
                    ELSE None,
              quotients |-> <<t_min, t_max>>]

\* segment.min_dist_sq(&point)
MinDistSq ==
    /\ seg_call = <<>>
    /\ \E l \in LineSegments, p \in Points :
          seg_call' = <<[op |-> "min_dist_sq", segment |-> l, point |-> p,
                         result |-> min_dist_sq(l, p)]>>
    /\ UNCHANGED varsNotSeg

\* segment.intersect_sphere(&sphere), for the segments whose discriminant
\* has a square root in the integers
IntersectSphere ==
    /\ seg_call = <<>>
    /\ \E l \in LineSegments, center \in Points, radius \in Radii :
          LET sphere == Sphere_new(center, radius)
              discriminant == sphere_discriminant(l, sphere)
          IN  /\ discriminant >= 0 =>
                    \E r \in 0 .. discriminant : r * r = discriminant
              /\ seg_call' = <<[op |-> "intersect_sphere", segment |-> l,
                                sphere |-> sphere,
                                result |-> intersect_sphere(l, sphere)]>>
    /\ UNCHANGED varsNotSeg

\* LineSegment::min_dist_sq_line(&a, &b), the first segment starting at
\* Vector3::ZERO
MinDistSqLine ==
    /\ seg_call = <<>>
    /\ \E e1 \in Points, s2 \in Points, e2 \in Points :
          LET a == LineSegment_new(ZERO, e1)
              b == LineSegment_new(s2, e2)
          IN  seg_call' = <<[op |-> "min_dist_sq_line", a |-> a, b |-> b,
                             result |-> min_dist_sq_line(a, b)]>>
    /\ UNCHANGED varsNotSeg

InitSeg == seg_call = <<>>

NextSeg == CapsuleIntersect \/ MinDistSq \/ IntersectSphere \/ MinDistSqLine

(***************************************************************************)
(* Game-tree search (chapter04/src/math/search.rs).  A GTNode is a record  *)
(* [children, score]: score stands for the board of the node, as get_score *)
(* values it; it is only read at a leaf.                                   *)
(***************************************************************************)
\* depth of the game trees, the root not counted
MaxDepth == 3

\* largest number of children of a node
MaxBranch == 2

\* the values get_score returns: O wins, tie, X wins
Scores == {-1, 0, 1}

\* f32::INFINITY and f32::NEG_INFINITY, beyond every score
F32_INFINITY == 2

F32_NEG_INFINITY == -2

Max(x, y) == IF x > y THEN x ELSE y

GTNode_new(children, score) == [children |-> children, score |-> score]

\* the game trees of depth at most depth
RECURSIVE GameTrees(_)
GameTrees(depth) ==
    LET leaves == {GTNode_new(<<>>, v) : v \in Scores}
    IN  IF depth = 0 THEN leaves
        ELSE leaves \cup
             {GTNode_new(cs, 0) :
                 cs \in UNION {[1 .. k -> GameTrees(depth - 1)] :
                                  k \in 1 .. MaxBranch}}

\* get_score(&node.state)
get_score(node) == node.score

RECURSIVE max_player(_), min_player(_), max_player_from(_, _, _)
RECURSIVE min_player_from(_, _, _)
\* the loop of max_player from child i on
max_player_from(cs, i, max_value) ==
    IF i > Len(cs) THEN max_value
    ELSE max_player_from(cs, i + 1, Max(max_value, min_player(cs[i])))

\* the loop of min_player from child i on
min_player_from(cs, i, min_value) ==
    IF i > Len(cs) THEN min_value
    ELSE min_player_from(cs, i + 1, Min(min_value, max_player(cs[i])))

max_player(node) ==
    IF node.children = <<>> THEN get_score(node)
    ELSE max_player_from(node.children, 1, F32_NEG_INFINITY)

min_player(node) ==
    IF node.children = <<>> THEN get_score(node)
    ELSE min_player_from(node.children, 1, F32_INFINITY)

\* the loop of minimax_decide from child i on; choice is the place of the
\* chosen child among the children of the root
RECURSIVE minimax_decide_from(_, _, _, _)
minimax_decide_from(cs, i, max_value, choice) ==
    IF i > Len(cs) THEN choice
    ELSE LET v == min_player(cs[i])
         IN  IF v > max_value
             THEN minimax_decide_from(cs, i + 1, v, Some(i))
             ELSE minimax_decide_from(cs, i + 1, max_value, choice)

minimax_decide(root) ==
    minimax_decide_from(root.children, 1, F32_NEG_INFINITY, None)

RECURSIVE alpha_beta_max(_, _, _), alpha_beta_min(_, _, _)
RECURSIVE alpha_beta_max_from(_, _, _, _, _)
RECURSIVE alpha_beta_min_from(_, _, _, _, _)
\* the loop of alpha_beta_max from child i on
alpha_beta_max_from(cs, i, max_value, alpha, beta) ==
    IF i > Len(cs) THEN max_value
    ELSE LET m == Max(max_value, alpha_beta_min(cs[i], alpha, beta))
         IN  IF m >= beta THEN m
             ELSE alpha_beta_max_from(cs, i + 1, m, Max(m, alpha), beta)

\* the loop of alpha_beta_min from child i on
alpha_beta_min_from(cs, i, min_value, alpha, beta) ==
    IF i > Len(cs) THEN min_value
    ELSE LET m == Min(min_value, alpha_beta_max(cs[i], alpha, beta))
         IN  IF m <= alpha THEN m
             ELSE alpha_beta_min_from(cs, i + 1, m, alpha, Min(m, beta))

alpha_beta_max(node, alpha, beta) ==
    IF node.children = <<>> THEN get_score(node)
    ELSE alpha_beta_max_from(node.children, 1, F32_NEG_INFINITY, alpha, beta)

alpha_beta_min(node, alpha, beta) ==
    IF node.children = <<>> THEN get_score(node)
    ELSE alpha_beta_min_from(node.children, 1, F32_INFINITY, alpha, beta)

\* alpha_beta_decide that takes a child whose value is not below the best
RECURSIVE alpha_beta_decide_last(_, _, _, _)
alpha_beta_decide_last(cs, i, max_value, choice) ==
    IF i > Len(cs) THEN choice
    ELSE LET v == alpha_beta_min(cs[i], max_value, F32_INFINITY)
         IN  IF v >= max_value
             THEN alpha_beta_decide_last(cs, i + 1, v, Some(i))
             ELSE alpha_beta_decide_last(cs, i + 1, max_value, choice)

\* the loop of alpha_beta_decide from child i on
RECURSIVE alpha_beta_decide_from(_, _, _, _)
alpha_beta_decide_from(cs, i, max_value, choice) ==
    IF i > Len(cs) THEN choice
    ELSE LET v == alpha_beta_min(cs[i], max_value, F32_INFINITY)
         IN  IF v > max_value
             THEN alpha_beta_decide_from(cs, i + 1, v, Some(i))
             ELSE alpha_beta_decide_from(cs, i + 1, max_value, choice)

alpha_beta_decide(root) ==
    alpha_beta_decide_from(root.children, 1, F32_NEG_INFINITY, None)

\* minimax_decide(root) and alpha_beta_decide(root) on the same tree, as
\* test_minimax and test_alpha_beta_pruning call them
Decide ==
    /\ search_call = <<>>
    /\ \E root \in GameTrees(MaxDepth) :
          search_call' = <<[op |-> "decide", root |-> root,
                            minimax |-> minimax_decide(root),
                            alpha_beta |-> alpha_beta_decide(root)]>>
    /\ UNCHANGED varsNotSearch

(***************************************************************************)
(* A* over a weighted graph (chapter04/src/math/search.rs).  A graph is    *)
(* the function from each node to its edges, records [from, to, weight].   *)
(***************************************************************************)
\* number of nodes of the weighted graphs
MaxNodes == 3

\* largest weight of an edge
MaxWeight == 3

Nodes == 0 .. (MaxNodes - 1)

\* WeightedEdge::new
WeightedEdge_new(from, to, weight) ==
    [from |-> from, to |-> to, weight |-> weight]

\* node.edges for the weights w, 0 standing for no edge: the edges of the
\* node in the order of their targets
edges_of(w, n) ==
    LET has_edge(m) == m # n /\ w[<<n, m>>] > 0
        targets == SelectSeq([i \in 1 .. MaxNodes |-> i - 1], has_edge)
    IN  [i \in 1 .. Len(targets) |->
            WeightedEdge_new(n, targets[i], w[<<n, targets[i]>>])]

\* the weighted graphs over Nodes
WeightedGraphs ==
    {[n \in Nodes |-> edges_of(w, n)] :
        w \in [Nodes \X Nodes -> 0 .. MaxWeight]}

\* AStartScratch::new; a node without an entry in out_map has this scratch
AStartScratch_new ==
    [parent_edge |-> None, heuristic |-> 0, actual_from_start |-> 0,
     in_open_set |-> FALSE, in_closed_set |-> FALSE]

compute_heuristic(a, b) == 0

\* the for loop of a_ster over the edges of current
RECURSIVE a_ster_edges(_, _, _)
a_ster_edges(st, goal, es) ==
    IF es = <<>> THEN st
    ELSE LET edge == Head(es)
             neighbor == edge.to
             data == st.out_map[neighbor]
             new_g == st.out_map[st.current].actual_from_start + edge.weight
             next ==
                 IF data.in_closed_set THEN st
                 ELSE IF ~data.in_open_set
                 THEN [st EXCEPT
                          !.out_map[neighbor] =
                              [data EXCEPT
                                  !.parent_edge = Some(edge),
                                  !.heuristic =
                                      compute_heuristic(neighbor, goal),
                                  !.actual_from_start = new_g,
                                  !.in_open_set = TRUE],
                          !.open_set = Append(@, neighbor)]
                 ELSE IF new_g < data.actual_from_start
                 THEN [st EXCEPT
                          !.out_map[neighbor] =
                              [data EXCEPT !.parent_edge = Some(edge),
                                           !.actual_from_start = new_g]]
                 ELSE [st EXCEPT
                          !.out_map[neighbor] =
                              [data EXCEPT !.parent_edge = Some(edge)]]
         IN  a_ster_edges(next, goal, Tail(es))

\* open_set...min_by(heuristic + actual_from_start): the first node of
\* open_set whose value is smallest
a_ster_min(st) ==
    LET value(i) == st.out_map[st.open_set[i]].heuristic
                    + st.out_map[st.open_set[i]].actual_from_start
        i == CHOOSE i \in 1 .. Len(st.open_set) :
                 /\ \A j \in 1 .. Len(st.open_set) : value(i) <= value(j)
                 /\ \A j \in 1 .. (i - 1) : value(i) < value(j)
    IN  st.open_set[i]

\* the while loop of a_ster
RECURSIVE a_ster_loop(_, _, _, _)
a_ster_loop(st, graph, goal, is_first) ==
    IF ~is_first /\ st.current = goal THEN st
    ELSE LET visited == a_ster_edges(st, goal, graph[st.current])
             result == a_ster_min(visited)
             other(n) == n # result
         IN  IF visited.open_set = <<>> THEN visited
             ELSE a_ster_loop(
                      [visited EXCEPT
                          !.current = result,
                          !.open_set = SelectSeq(@, other),
                          !.out_map[result].in_open_set = FALSE,
                          !.out_map[result].in_closed_set = TRUE],
                      graph, goal, FALSE)

\* a_ster: what it returns, and out_map afterwards
a_ster(graph, start, goal) ==
    LET st == a_ster_loop(
                  [out_map |-> [n \in Nodes |->
                                   IF n = start
                                   THEN [AStartScratch_new
                                            EXCEPT !.in_closed_set = TRUE]
                                   ELSE AStartScratch_new],
                   open_set |-> <<>>,
                   current |-> start],
                  graph, goal, TRUE)
    IN  [found |-> st.current = goal, out_map |-> st.out_map]

\* a_ster(start, goal, &mut map) from the first node of a graph to its last,
\* as test_a_star calls it
AStar ==
    /\ search_call = <<>>
    /\ \E graph \in WeightedGraphs :
          LET r == a_ster(graph, 0, MaxNodes - 1)
          IN  search_call' = <<[op |-> "a_ster", graph |-> graph,
                                start |-> 0, goal |-> MaxNodes - 1,
                                found |-> r.found, out_map |-> r.out_map]>>
    /\ UNCHANGED varsNotSearch

InitSearch == search_call = <<>>

NextSearch == Decide \/ AStar

(***************************************************************************)
(* The AI state machine (chapter04/src/components/ai_component.rs,         *)
(* components/ai_state.rs).  An AI state is identified with its name.      *)
(***************************************************************************)
\* AIPatrol, AIDeath, AIAttack
AIStates == {"Patrol", "Death", "Attack"}

\* the names change_state is called with; no state is called "Flee"
AINames == AIStates \cup {"Flee"}

\* AIState::update: AIPatrol asks for Death, the others for nothing
ai_state_update(st) == IF st = "Patrol" THEN Some("Death") ELSE None

\* change_state that keeps the current state when the name is unknown
change_state_keeps_current(map, current, name) ==
    [current_state |-> IF name \in map THEN Some(name) ELSE current,
     log |-> (IF current # None THEN <<<<"on_exit", current[1]>>>> ELSE <<>>)
             \o (IF name \in map THEN <<<<"on_enter", name>>>> ELSE <<>>)]

\* AIComponent::change_state
change_state(map, current, name) ==
    [current_state |-> IF name \in map THEN Some(name) ELSE None,
     log |-> (IF current # None THEN <<<<"on_exit", current[1]>>>> ELSE <<>>)
             \o (IF name \in map THEN <<<<"on_enter", name>>>> ELSE <<>>)]

\* AIComponent::register_state
RegisterState ==
    /\ \E st \in AIStates : state_map' = state_map \cup {st}
    /\ ai_log' = <<>>
    /\ update_result' = <<"-">>
    /\ UNCHANGED current_state
    /\ UNCHANGED varsNotAI

\* AIComponent::change_state(name)
ChangeState ==
    /\ \E name \in AINames :
          LET r == change_state(state_map, current_state, name)
          IN  /\ current_state' = r.current_state
              /\ ai_log' = r.log
    /\ update_result' = <<"-">>
    /\ UNCHANGED state_map
    /\ UNCHANGED varsNotAI

\* AIComponent::update
AIUpdate ==
    /\ LET result == IF current_state # None
                     THEN ai_state_update(current_state[1])
                     ELSE None
           updated == IF current_state # None
                      THEN <<<<"update", current_state[1]>>>>
                      ELSE <<>>
           r == change_state(state_map, current_state, result[1])
       IN  /\ update_result' = result
           /\ current_state' =
                  IF result # None THEN r.current_state ELSE current_state
           /\ ai_log' = IF result # None THEN updated \o r.log ELSE updated
    /\ UNCHANGED state_map
    /\ UNCHANGED varsNotAI

\* AIComponent::new
InitAI ==
    /\ state_map = {}
    /\ current_state = None
    /\ ai_log = <<>>
    /\ update_result = <<"-">>

NextAI == RegisterState \/ ChangeState \/ AIUpdate

(***************************************************************************)
(* generate_id, one atomic operation at a time.  The tests of a crate run  *)
(* on several threads and share the static counter.                        *)
(***************************************************************************)
\* number of threads that call generate_id
MaxThreads == 2

\* number of calls of generate_id
MaxCalls == 4

Threads == 1 .. MaxThreads

\* let id = ID.load(Ordering::SeqCst)
Load(t) ==
    /\ thread_pc[t] = "call"
    /\ Len(returned) + Cardinality({u \in Threads : thread_pc[u] = "loaded"})
           < MaxCalls
    /\ thread_id' = [thread_id EXCEPT ![t] = atomic_ID]
    /\ thread_pc' = [thread_pc EXCEPT ![t] = "loaded"]
    /\ UNCHANGED <<atomic_ID, returned>>
    /\ UNCHANGED varsNotIds

\* ID.fetch_add(1, Ordering::SeqCst); id
FetchAdd(t) ==
    /\ thread_pc[t] = "loaded"
    /\ atomic_ID' = atomic_ID + 1
    /\ returned' = Append(returned, thread_id[t])
    /\ thread_pc' = [thread_pc EXCEPT ![t] = "call"]
    /\ UNCHANGED thread_id
    /\ UNCHANGED varsNotIds

InitIds ==
    /\ atomic_ID = 0
    /\ thread_pc = [t \in Threads |-> "call"]
    /\ thread_id = [t \in Threads |-> 0]
    /\ returned = <<>>

NextIds == \E t \in Threads : Load(t) \/ FetchAdd(t)

(***************************************************************************)
(* The Grid of tiles and its path search (chapter04/src/actors/grid.rs).   *)
(* A tile is <<row, column>>; lengths are in units of Grid::TILE_SIZE.     *)
(***************************************************************************)
\* Grid::NUM_ROW and Grid::NUM_COLUMN of the grids explored
GridRows == 3

GridColumns == 3

Tiles == (0 .. (GridRows - 1)) \X (0 .. (GridColumns - 1))

\* Grid::get_start_tile: the first tile of the middle row
get_start_tile == <<GridRows \div 2, 0>>

\* Grid::get_end_tile: the last tile of the middle row
get_end_tile == <<GridRows \div 2, GridColumns - 1>>

\* Tile.adjacent, in the order Grid::new adds the neighbours
adjacent(t) ==
    LET in_grid(u) == u \in Tiles
    IN  SelectSeq(<<<<t[1] - 1, t[2]>>, <<t[1] + 1, t[2]>>,
                    <<t[1], t[2] - 1>>, <<t[1], t[2] + 1>>>>, in_grid)

\* the square of Tile.h: the squared length from t to the goal
h_squared(t, goal) ==
    (t[1] - goal[1]) * (t[1] - goal[1]) + (t[2] - goal[2]) * (t[2] - goal[2])

\* f of one tile below f of another: g1 + sqrt(a) < g2 + sqrt(b)
f_less(g1, a, g2, b) ==
    LET k == g2 - g1
    IN  IF k >= 0
        THEN LET m == a - k * k - b
             IN  m < 0 \/ m * m < 4 * k * k * b
        ELSE LET m == b - k * k - a
             IN  m > 0 /\ m * m > 4 * k * k * a

\* open_set...min_by(f): the first tile of open_set whose f is smallest
min_by_f(st, goal) ==
    LET less(i, j) == f_less(st.g[st.open_set[i]],
                             h_squared(st.open_set[i], goal),
                             st.g[st.open_set[j]],
                             h_squared(st.open_set[j], goal))
        i == CHOOSE i \in 1 .. Len(st.open_set) :
                 /\ \A j \in 1 .. Len(st.open_set) : ~less(j, i)
                 /\ \A j \in 1 .. (i - 1) : less(i, j)
    IN  st.open_set[i]

\* the for loop of find_path over the neighbours of current
RECURSIVE visit_adjacent(_, _, _)
visit_adjacent(st, bl, neighbors) ==
    IF neighbors = <<>> THEN st
    ELSE LET n == Head(neighbors)
             new_g == st.g[st.current] + 1
             next ==
                 IF n \in bl \/ st.in_closed_set[n] THEN st
                 ELSE IF ~st.in_open_set[n]
                 THEN [st EXCEPT !.parent[n] = Some(st.current),
                                 !.g[n] = new_g,
                                 !.in_open_set[n] = TRUE,
                                 !.open_set = Append(@, n)]
                 ELSE IF new_g < st.g[n]
                 THEN [st EXCEPT !.parent[n] = Some(st.current),
                                 !.g[n] = new_g]
                 ELSE st
         IN  visit_adjacent(next, bl, Tail(neighbors))

\* the while loop of find_path
RECURSIVE find_path_loop(_, _, _, _)
find_path_loop(st, bl, goal, is_first) ==
    IF ~is_first /\ st.current = goal THEN st
    ELSE LET visited == visit_adjacent(st, bl, adjacent(st.current))
             min == min_by_f(visited, goal)
             other(t) == t # min
         IN  IF visited.open_set = <<>> THEN visited
             ELSE find_path_loop(
                      [visited EXCEPT !.current = min,
                                      !.open_set = SelectSeq(@, other),
                                      !.in_open_set[min] = FALSE,
                                      !.in_closed_set[min] = TRUE],
                      bl, goal, FALSE)

\* Grid::find_path: whether the goal was reached, and Tile.parent afterwards
find_path(bl, parent, start, goal) ==
    LET st == find_path_loop(
                  [g |-> [t \in Tiles |-> 0],
                   in_open_set |-> [t \in Tiles |-> FALSE],
                   in_closed_set |-> [t \in Tiles |-> t = start],
                   parent |-> parent,
                   open_set |-> <<>>,
                   current |-> start],
                  bl, goal, TRUE)
    IN  [found |-> st.current = goal, parent |-> st.parent]

\* Grid::update_path_tiles: the tiles set to TileState::Path, those on the
\* parent links from the parent of start up to the end tile
RECURSIVE path_from(_, _, _)
path_from(parent, tile, left) ==
    IF tile = get_end_tile \/ left = 0 \/ parent[tile] = None THEN {}
    ELSE {tile} \cup path_from(parent, parent[tile][1], left - 1)

update_path_tiles(parent, start) ==
    IF parent[start] = None THEN {}
    ELSE path_from(parent, parent[start][1], Cardinality(Tiles))

\* Grid::process_click on a pixel of the tile t: select_tile(row, column)
ProcessClick ==
    /\ \E t \in Tiles : selected_tile' = Some(t)
    /\ UNCHANGED <<blocked, tile_parent, path_tiles, towers>>
    /\ UNCHANGED varsNotGrid

\* Grid::build_tower
BuildTower ==
    /\ selected_tile # None
    /\ selected_tile[1] \notin blocked
    /\ LET with_tower == blocked \cup {selected_tile[1]}
           r == find_path(with_tower, tile_parent, get_end_tile,
                          get_start_tile)
           again == find_path(blocked, r.parent, get_end_tile, get_start_tile)
       IN  IF r.found
           THEN /\ blocked' = with_tower
                /\ towers' = towers \cup {selected_tile[1]}
                /\ tile_parent' = r.parent
                /\ path_tiles' = update_path_tiles(r.parent, get_start_tile)
           ELSE /\ blocked' = blocked
                /\ towers' = towers
                /\ tile_parent' = again.parent
                /\ path_tiles' =
                       update_path_tiles(again.parent, get_start_tile)
    /\ UNCHANGED selected_tile
    /\ UNCHANGED varsNotGrid

\* Grid::new
InitGrid ==
    /\ blocked = {}
    /\ selected_tile = None
    /\ towers = {}
    /\ tile_parent = find_path({}, [t \in Tiles |-> None], get_end_tile,
                               get_start_tile).parent
    /\ path_tiles = update_path_tiles(tile_parent, get_start_tile)

NextGrid == ProcessClick \/ BuildTower

\* ---------------------------------------------------------------------
\* FPSActor::fix_collision: the player pushed out of the plane boxes
\* ---------------------------------------------------------------------

MaxMove == 2

RoomHalf == 2

MaxPlanes == 2

\* the object box FPSActor::new gives its BoxComponent, in units of 25
\* (the height rounded to a whole unit)
fps_object_box == AABB_new(<<-1, -1, -2>>, <<1, 1, 2>>)

\* the positions the move component leaves the player at
FpsPositions ==
    {<<x, y, z>> : x \in 0 .. MaxMove, y \in 0 .. MaxMove,
                   z \in (0 - MaxMove) .. 0}

\* the world boxes of the PlaneActors of load_data: the floor and the
\* walls of the room
PlaneBoxes ==
    {AABB_new(<<0 - RoomHalf - 1, 0 - RoomHalf - 1, 0 - RoomHalf - 1>>,
              <<RoomHalf + 1, RoomHalf + 1, 0 - RoomHalf>>),
     AABB_new(<<RoomHalf, 0 - RoomHalf - 1, 0 - RoomHalf - 1>>,
              <<RoomHalf + 1, RoomHalf + 1, RoomHalf + 1>>),
     AABB_new(<<0 - RoomHalf - 1, RoomHalf, 0 - RoomHalf - 1>>,
              <<RoomHalf + 1, RoomHalf + 1, RoomHalf + 1>>)}

\* BoxComponent::on_update_world_transform with should_rotate false and
\* the owner's scale 1: the object box translated to the owner's position
box_on_update_world_transform(object_box, position) ==
    AABB_new(VecAdd(object_box.min, position),
             VecAdd(object_box.max, position))

\* the correction fix_collision computes for one overlapped plane: the
\* smaller difference of each axis, applied on the axis where it is least
plane_correction(player_box, plane_box) ==
    LET dx1 == plane_box.max[1] - player_box.min[1]
        dx2 == plane_box.min[1] - player_box.max[1]
        dy1 == plane_box.max[2] - player_box.min[2]
        dy2 == plane_box.min[2] - player_box.max[2]
        dz1 == plane_box.max[3] - player_box.min[3]
        dz2 == plane_box.min[3] - player_box.max[3]
        dx == IF Abs(dx1) < Abs(dx2) THEN dx1 ELSE dx2
        dy == IF Abs(dy1) < Abs(dy2) THEN dy1 ELSE dy2
        dz == IF Abs(dz1) < Abs(dz2) THEN dz1 ELSE dz2
    IN  IF Abs(dx) <= Abs(dy) /\ Abs(dx) <= Abs(dz)
        THEN <<dx, 0, 0>>
        ELSE IF Abs(dy) <= Abs(dx) /\ Abs(dy) <= Abs(dz)
             THEN <<0, dy, 0>>
             ELSE <<0, 0, dz>>

\* the first loop of fix_collision: one new position per plane whose box
\* intersects the player's, each computed from the position and the box
\* the player had on entry
RECURSIVE new_positions_from(_, _, _, _)
new_positions_from(position, player_box, ps, i) ==
    IF i > Len(ps)
    THEN <<>>
    ELSE IF intersect(player_box, ps[i])
         THEN <<VecAdd(position, plane_correction(player_box, ps[i]))>>
                  \o new_positions_from(position, player_box, ps, i + 1)
         ELSE new_positions_from(position, player_box, ps, i + 1)

\* the second loop of fix_collision: set_position and
\* on_update_world_transform for each new position in turn
RECURSIVE apply_new_positions(_, _, _)
apply_new_positions(p, new_positions, i) ==
    IF i > Len(new_positions)
    THEN p
    ELSE apply_new_positions(
             [position |-> new_positions[i],
              recompute |-> TRUE,
              world_box |-> box_on_update_world_transform(
                                fps_object_box, new_positions[i])],
             new_positions, i + 1)

\* FPSActor::fix_collision on the player p among the plane boxes ps
fix_collision(p, ps) ==
    LET computed ==
            IF p.recompute
            THEN [p EXCEPT !.recompute = FALSE,
                           !.world_box = box_on_update_world_transform(
                                             fps_object_box, p.position)]
            ELSE p
        new_positions ==
            new_positions_from(computed.position, computed.world_box, ps, 1)
    IN  apply_new_positions(computed, new_positions, 1)

\* the player as a record
FpsPlayer ==
    [position |-> fps_position, recompute |-> fps_recompute,
     world_box |-> fps_world_box]

\* load_data pushes one more PlaneActor
AddPlane ==
    /\ Len(planes) < MaxPlanes
    /\ \E b \in PlaneBoxes :
          /\ \A i \in 1 .. Len(planes) : planes[i] # b
          /\ planes' = Append(planes, b)
    /\ fix_call' = <<>>
    /\ UNCHANGED <<fps_position, fps_recompute, fps_world_box>>
    /\ UNCHANGED varsNotFix

\* the move component moves the player: Actor::set_position
SetPlayerPosition ==
    /\ \E q \in FpsPositions :
          /\ q # fps_position
          /\ fps_position' = q
    /\ fps_recompute' = TRUE
    /\ fix_call' = <<>>
    /\ UNCHANGED <<fps_world_box, planes>>
    /\ UNCHANGED varsNotFix

\* FPSActor::update_actor calls fix_collision
FixCollision ==
    /\ LET r == fix_collision(FpsPlayer, planes)
           entry_box == box_on_update_world_transform(fps_object_box,
                                                      fps_position)
       IN  /\ fps_position' = r.position
           /\ fps_recompute' = r.recompute
           /\ fps_world_box' = r.world_box
           /\ fix_call' =
                  <<[position |-> fps_position,
                     player_box |-> IF fps_recompute THEN entry_box
                                    ELSE fps_world_box]>>
    /\ UNCHANGED planes
    /\ UNCHANGED varsNotFix

InitFix ==
    /\ fps_position = ZERO
    /\ fps_recompute = FALSE
    /\ fps_world_box = box_on_update_world_transform(fps_object_box, ZERO)
    /\ planes = <<>>
    /\ fix_call = <<>>

NextFix == AddPlane \/ SetPlayerPosition \/ FixCollision

\* After Game::initialize: load_data has constructed the player with the
\* flag false, so it is in the active list
InitEM ==
    /\ actors = <<0>>
    /\ pending_actors = <<>>
    /\ updating_actors = FALSE
    /\ actor_state = [a \in ActorIds |-> IF a = 0 THEN "Active" ELSE "None"]
    /\ components = [a \in ActorIds |-> IF a = 0 THEN <<0>> ELSE <<>>]
    /\ component_state = [c \in CompIds |-> IF c = 0 THEN "Active" ELSE "None"]
    /\ boxes = <<0>>
    /\ ID = 1
    /\ issued = <<0>>
    /\ pc = "process_input"
    /\ iter = <<>>
    /\ idx = 1
    /\ updates_this_tick = [a \in ActorIds |-> 0]
    /\ spawned_in_update = {}
    /\ deferred = {}
    /\ remove_count = [a \in ActorIds |-> 0]
    /\ pre_pending = <<>>
    /\ flushed = <<>>

Next ==
    \/ ProcessInputBegin
    \/ ProcessInputActor
    \/ ProcessInputEnd
    \/ UpdateGameBegin
    \/ UpdateActor
    \/ UpdateGameReAdd
    \/ FlushActors
    \/ FlushBoxes
    \/ GenerateOutput

Init ==
    /\ InitEM /\ InitActor /\ InitGeom /\ InitPhys /\ InitAabb /\ InitSeg
    /\ InitSearch /\ InitAI /\ InitPass /\ InitIds /\ InitGrid /\ InitFix

\* Game::run_loop
Spec == Init /\ [][Next]_vars

\* one actor driven through its public operations
SpecActor == Init /\ [][NextActor]_vars

\* PhysWorld under registrations and segment casts
SpecGeom == Init /\ [][NextGeom]_vars

\* one actor's components attached, marked Dead and detached
SpecComp == Init /\ [][NextComp]_vars

\* calls of the operations of AABB on boxes and points of the grid
SpecAabb == Init /\ [][NextAabb]_vars

\* calls of the segment and capsule queries on points of the grid
SpecSeg == Init /\ [][NextSeg]_vars

\* calls of the searches of chapter04
SpecSearch == Init /\ [][NextSearch]_vars

\* the passes of update_component over one actor
SpecPass == Init /\ [][NextPass]_vars

\* threads that call generate_id, their atomic operations interleaved
SpecIds == Init /\ [][NextIds]_vars

\* tile selections and build_tower calls on one Grid
SpecGrid == Init /\ [][NextGrid]_vars

\* one AIComponent driven through its operations
SpecAI == Init /\ [][NextAI]_vars

\* the player moved and pushed out of the planes
SpecFix == Init /\ [][NextFix]_vars

\* the box registry driven through the interface of PhysWorld
SpecPhys == Init /\ [][NextPhys]_vars

(***************************************************************************)
(* Claims about the frame loop and the entity manager                      *)
(***************************************************************************)

\* C1: an actor spawned during a pass is merged into the active list exactly
\* once, and from then on update is called on it exactly once per tick: no
\* actor is listed twice, none is updated twice in one tick, and when the
\* update pass is over every listed actor that is still Active was updated.
C1_MergedOnceUpdatedOnce ==
    /\ \A a \in ActorIds : Count(actors, a) <= 1
    /\ \A a \in ActorIds : updates_this_tick[a] <= 1
    /\ pc = "flush_actors" =>
          \A a \in Range(iter) :
              actor_state[a] = "Active" => updates_this_tick[a] = 1

\* C2: an actor handed to add_actor while the flag was true is in the
\* pending list only and is not in get_actors() as long as flush_actors has
\* not been called since.
C2_DeferredUntilFlush ==
    \A a \in deferred :
        /\ a \notin Range(actors)
        /\ a \in Range(pending_actors)

\* C3: an actor constructed during a tick's update pass has no update call
\* of its own in that tick.
C3_SpawnedNotUpdatedInTick ==
    \A a \in spawned_in_update : updates_this_tick[a] = 0

\* C3 witness: the update pass of a tick is over and an actor was
\* constructed during it, after which another actor was still updated
C3_Witness ==
    /\ pc = "flush_actors"
    /\ spawned_in_update # {}
    /\ \E i \in 1 .. Len(iter) :
          /\ i > 1
          /\ updates_this_tick[iter[i]] > 0
          /\ iter[i] \notin spawned_in_update

\* C4: each Dead actor is destroyed by remove_actor exactly once: never
\* more than once, and once flush_actors has returned exactly once.
C4_RemovedExactlyOnce ==
    \A a \in ActorIds :
        /\ remove_count[a] <= 1
        /\ (pc = "flush_boxes" /\ actor_state[a] = "Dead")
              => remove_count[a] = 1

\* C5: when flush_actors has returned the pending list is empty, every
\* actor that was pending and is not Dead is in the active list, and no
\* actor of the active list is Dead.
C5_AfterFlush ==
    pc = "flush_boxes" =>
        /\ pending_actors = <<>>
        /\ \A a \in Range(pre_pending) :
              actor_state[a] # "Dead" => a \in Range(actors)
        /\ \A a \in Range(actors) : actor_state[a] # "Dead"

\* C5 witness: flush_actors has just merged a pending actor that lives on
\* and purged a Dead one
C5_Witness ==
    /\ pc = "flush_boxes"
    /\ \E a \in Range(pre_pending) : actor_state[a] = "Active"
    /\ flushed # <<>>

(***************************************************************************)
(* Claims about the actor update protocol                                  *)
(***************************************************************************)

\* C6: a compute_world_transform call that repeats one, with no setter call
\* in between, leaves the matrix as it was and notifies no component.
C6_RecomputeIdempotent ==
    computes_since_set = 2 => (same_matrix /\ notified_last = 0)

\* C7: the Component::update calls of one Actor::update_component are made
\* in ascending update_order.
C7_AscendingUpdateOrder ==
    \A i, j \in 1 .. Len(update_log) :
        i < j => update_log[i] <= update_log[j]

C9_SegmentCastClosest ==
    line # <<>> =>
        LET l == line[1]
            crossings(b) ==
                {Div(p[2] - l.start[p[1]], l.end[p[1]] - l.start[p[1]]) :
                    p \in {q \in ({<<k, b.min[k]>> : k \in 1 .. 3}
                                  \cup {<<k, b.max[k]>> : k \in 1 .. 3}) :
                              l.end[q[1]] # l.start[q[1]]}}
            inside(b, t) ==
                \A k \in 1 .. 3 :
                    /\ b.min[k] * t[2] <= point_on_segment(l, t).num[k]
                    /\ point_on_segment(l, t).num[k] <= b.max[k] * t[2]
            good(b) ==
                {t \in crossings(b) : /\ LessEq(<<0, 1>>, t)
                                      /\ LessEq(t, <<1, 1>>)
                                      /\ inside(b, t)}
            hit == {i \in 1 .. Len(world_boxes) : good(world_boxes[i]) # {}}
            first(i) ==
                CHOOSE t \in good(world_boxes[i]) :
                    \A u \in good(world_boxes[i]) : LessEq(t, u)
        IN  IF collision_info = None THEN hit = {}
            ELSE /\ collision_info[1].box_component \in hit
                 /\ \A k \in 1 .. 3 :
                       collision_info[1].point.num[k]
                           * first(collision_info[1].box_component)[2]
                       = point_on_segment(l,
                             first(collision_info[1].box_component)).num[k]
                           * collision_info[1].point.den
                 /\ \A j \in hit :
                       /\ LessEq(first(collision_info[1].box_component),
                                 first(j))
                       /\ j < collision_info[1].box_component =>
                             Less(first(collision_info[1].box_component),
                                  first(j))

\* C10: intersect_aabb returns (t, normal) only for a t in [0, 1] at which
\* the segment crosses a side plane of the box and whose point lies inside
\* the box on all three axes, that t is the smallest such crossing, and it
\* returns None when there is no such crossing.
C10_IntersectAabbFirstInside ==
    \A i \in 1 .. Len(hits) :
        LET l == line[1]
            b == world_boxes[i]
            crossings ==
                {Div(p[2] - l.start[p[1]], l.end[p[1]] - l.start[p[1]]) :
                    p \in {q \in ({<<k, b.min[k]>> : k \in 1 .. 3}
                                  \cup {<<k, b.max[k]>> : k \in 1 .. 3}) :
                              l.end[q[1]] # l.start[q[1]]}}
            inside(t) ==
                \A k \in 1 .. 3 :
                    /\ b.min[k] * t[2] <= point_on_segment(l, t).num[k]
                    /\ point_on_segment(l, t).num[k] <= b.max[k] * t[2]
            good ==
                {t \in crossings : /\ LessEq(<<0, 1>>, t)
                                   /\ LessEq(t, <<1, 1>>)
                                   /\ inside(t)}
        IN  IF hits[i] = None THEN good = {}
            ELSE /\ hits[i][1][1] \in good
                 /\ \A u \in good : LessEq(hits[i][1][1], u)

(***************************************************************************)
(* Claims about the box registry                                           *)
(***************************************************************************)

\* C11: for any registry, test_sweep_and_prune calls f for exactly the same
\* set of unordered pairs of owners as test_pairwise does on that registry.
C11_SweepSameAsPairwise ==
    last_query = "test_sweep_and_prune" =>
        {{calls[i][1], calls[i][2]} : i \in 1 .. Len(calls)}
        = {{p[1], p[2]} : p \in Range(test_pairwise(boxes_before, world_box))}

\* a sweep over three boxes that had to reorder them, cut the inner loop
\* short and still found a pair
C11_Witness ==
    /\ last_query = "test_sweep_and_prune"
    /\ Len(boxes) = 3
    /\ boxes # boxes_before
    /\ Len(calls) \in 1 .. 2
    /\ \E i \in 1 .. 2 :
          world_box[boxes[i + 1]].min[1] > world_box[boxes[i]].max[1]

\* C12: segment_cast and test_sweep_and_prune leave the registry as it was,
\* the same members in the same order.
C12_QueriesKeepRegistry ==
    last_query \in {"segment_cast", "test_sweep_and_prune"} =>
        boxes = boxes_before

\* C13: whatever add_box, remove_box, flush_boxes and sweep-and-prune calls
\* were made, no component is in the registry more than once (a second
\* registration of a component does not get into the registry).
C13_RegisteredAtMostOnce ==
    \A c \in CompIds : Count(boxes, c) <= 1

\* C14: right after flush_boxes every registered box component is Active,
\* and after the flush sequence of a tick (flush_actors, then flush_boxes)
\* no box component of an actor purged in that tick is registered.
C14_FlushedBoxesActive ==
    pc = "generate_output" =>
        /\ \A c \in Range(boxes) : component_state[c] = "Active"
        /\ \A a \in Range(flushed) : get_owner(a) \notin Range(boxes)

\* a tick whose flush purged an actor and left another one's box registered
C14_Witness ==
    /\ pc = "generate_output"
    /\ flushed # <<>>
    /\ boxes # <<>>
    /\ \E c \in CompIds : component_state[c] = "Dead"

(***************************************************************************)
(* Claims about the component list of an actor                             *)
(***************************************************************************)

\* C15: add_component called with a component that is not Active, and
\* remove_component called with one that is not Dead, fail the assertion
\* and leave the component list alone: no such call is ever carried out.
C15_MisuseFailsFast ==
    \/ assertion = <<>>
    \/ assertion[1] \notin {"add_component", "remove_component"}
    \/ assertion[2] = "failed"

\* C15 as amended: in a build with debug assertions no step attaches a
\* component that is not Active or detaches one that is not Dead, and a
\* step that fails an assertion leaves the actor as it was.
C15_DebugBuildRejectsMisuse ==
    [][debug_assertions =>
          /\ \A c \in ComponentIds :
                /\ Count(actor'.components, c) > Count(actor.components, c)
                      => comp_state'[c] = "Active"
                /\ Count(actor'.components, c) < Count(actor.components, c)
                      => comp_state'[c] = "Dead"
          /\ assertion' # assertion => (panicked' /\ actor' = actor)]_vars

\* a debug build in which a component was marked Dead and removed and the
\* call that attached it again failed its assertion
C15_Witness ==
    /\ debug_assertions
    /\ assertion = <<"add_component", "failed">>
    /\ \E c \in ComponentIds :
          /\ comp_state[c] = "Dead"
          /\ c \notin Range(actor.components)
          /\ \A d \in ComponentIds \ {c} : comp_state[d] # "Dead"

\* C16: remove_component on a component marked Dead removes that component
\* from the list at once and leaves every other component attached, in the
\* order they were in.
C16_RemovesExactlyThat ==
    [][\A c \in ComponentIds :
          (~panicked /\ CallRemoveComponentOf(c) /\ comp_state[c] = "Dead")
              => LET other(x) == x # c
                 IN  actor'.components = SelectSeq(actor.components, other)]_vars

\* the first of three attached components was marked Dead and removed; the
\* other two are attached in their order
C16_Witness ==
    /\ comp_state = [c \in ComponentIds |-> IF c = 0 THEN "Dead" ELSE "Active"]
    /\ actor.components = <<1, 2>>
    /\ assertion = <<>>

(***************************************************************************)
(* Claims about actor ids                                                  *)
(***************************************************************************)

\* C17: every id generate_id returns is greater than every id it returned
\* before, so the ids of the actors are distinct and increase in creation
\* order.
C17_IdsIncrease ==
    \A i, j \in 1 .. Len(issued) : i < j => issued[i] < issued[j]

\* generate_id was called for every actor of the model, and all of them
\* are registered
C17_Witness ==
    /\ Len(issued) = MaxActors
    /\ ActorIds \subseteq Range(actors)

(***************************************************************************)
(* Claims about the states of an actor                                     *)
(***************************************************************************)

\* C18: update on an actor that is Paused or Dead calls no component's
\* update, does not call update_actor and leaves the position, the
\* rotation and the world transform of the actor as they were.
C18_UpdateOnlyWhenActive ==
    [][(Update /\ actor.state \in {"Paused", "Dead"})
          => /\ update_log' = <<>>
             /\ ~update_actor_called'
             /\ actor'.position = actor.position
             /\ actor'.rotation = actor.rotation
             /\ actor'.world_transform = actor.world_transform]_vars

\* an actor with two components that was updated, turned and moved while
\* Active, and has gone through update since it was Paused
C18_Witness ==
    /\ actor.state = "Paused"
    /\ Len(actor.components) = 2
    /\ actor.position # ZERO
    /\ actor.rotation # IDENTITY
    /\ update_log = <<>>
    /\ ~update_actor_called
    /\ computes_since_set = 1

C20_ContainsExact ==
    contained # <<>> =>
        (contained[1].result
         <=> \A k \in 1 .. 3 :
                /\ contained[1].aabb.min[k] <= contained[1].point[k]
                /\ contained[1].point[k] <= contained[1].aabb.max[k])

\* C21: AABB.intersect is symmetric: intersect(A, B) equals intersect(B, A)
\* for all boxes A and B.
C21_IntersectSymmetric ==
    intersected # <<>> => intersected[1].result = intersected[1].swapped

\* two boxes apart on the x axis, the first one on the far side, so that only
\* the comparisons of b.max with a.min tell them apart
C21_Witness ==
    /\ intersected # <<>>
    /\ intersected[1].b.max[1] < intersected[1].a.min[1]
    /\ ~intersected[1].result

(***************************************************************************)
(* Claims about capsules and segments                                      *)
(***************************************************************************)

\* C22: Capsule.intersect(a, b) is true exactly when the minimum squared
\* distance between the two capsules' axis segments is at most
\* (a.radius + b.radius) squared.  The distance of two segments is convex in
\* the two parameters, so its minimum is taken where the two lines come
\* closest, if that is inside both segments, or else at an end point of one
\* of them.
C22_CapsuleIntersectExact ==
    LET MinOf(x, y) == IF LessEq(x, y) THEN x ELSE y
        \* squared distance from the point p to the segment s
        PointSegment(p, s) ==
            LET ab == VecSub(s.end, s.start)
                ac == VecSub(p, s.start)
                len == dot(ab, ab)
                t == dot(ab, ac)
            IN  IF len = 0 \/ t <= 0 THEN <<length_sq(ac), 1>>
                ELSE IF t >= len THEN <<length_sq(VecSub(p, s.end)), 1>>
                ELSE <<length_sq(VecSub(VecScale(ac, len), VecScale(ab, t))),
                       len * len>>
        TrueMinDistSq(s1, s2) ==
            LET u == VecSub(s1.end, s1.start)
                v == VecSub(s2.end, s2.start)
                w == VecSub(s1.start, s2.start)
                a == dot(u, u)
                b == dot(u, v)
                c == dot(v, v)
                d == dot(u, w)
                e == dot(v, w)
                det == a * c - b * b
                sn == b * e - c * d
                tn == a * e - b * d
                ends == MinOf(MinOf(PointSegment(s1.start, s2),
                                    PointSegment(s1.end, s2)),
                              MinOf(PointSegment(s2.start, s1),
                                    PointSegment(s2.end, s1)))
                dp == VecSub(VecAdd(VecScale(w, det), VecScale(u, sn)),
                             VecScale(v, tn))
            IN  IF det # 0 /\ 0 <= sn /\ sn <= det /\ 0 <= tn /\ tn <= det
                THEN MinOf(ends, <<length_sq(dp), det * det>>)
                ELSE ends
    IN  (seg_call # <<>> /\ seg_call[1].op = "Capsule::intersect") =>
            LET a == seg_call[1].a
                b == seg_call[1].b
                sum_radius == a.radius + b.radius
            IN  seg_call[1].result
                <=> LessEq(TrueMinDistSq(a.segment, b.segment),
                           <<sum_radius * sum_radius, 1>>)

\* C23: geometry queries on degenerate input - a zero-length segment given to
\* min_dist_sq or intersect_sphere, or near-parallel segments given to
\* min_dist_sq_line - perform no division by zero and return a finite
\* result without panicking.  A quotient with denominator 0 is a division
\* by zero, and so is a result with denominator 0.
C23_DegenerateInputIsSafe ==
    seg_call # <<>> =>
        LET call == seg_call[1]
        IN  /\ (call.op = "min_dist_sq" /\ call.segment.start = call.segment.end)
                  => is_finite(call.result)
            /\ (call.op = "intersect_sphere"
                 /\ call.segment.start = call.segment.end)
                  => /\ \A i \in 1 .. Len(call.result.quotients) :
                           is_finite(call.result.quotients[i])
                     /\ call.result.t # None => is_finite(call.result.t[1])
            /\ (call.op = "min_dist_sq_line"
                 /\ cross(VecSub(call.a.end, call.a.start),
                          VecSub(call.b.end, call.b.start)) = ZERO)
                  => is_finite(call.result)

(***************************************************************************)
(* Claims about the searches                                               *)
(***************************************************************************)

\* C24: for every game tree, alpha_beta_decide returns the same child of the
\* root as minimax_decide.
C24_AlphaBetaSameChoice ==
    (search_call # <<>> /\ search_call[1].op = "decide") =>
        search_call[1].alpha_beta = search_call[1].minimax

\* the second child of the root is chosen although alpha-beta cut its first
\* grandchild short at a beta prune: that grandchild's first leaf is a win,
\* and its second leaf, which is not, is never visited
C24_Witness ==
    /\ search_call # <<>>
    /\ search_call[1].op = "decide"
    /\ search_call[1].minimax = Some(2)
    /\ LET second == search_call[1].root.children[2]
       IN  /\ Len(second.children) = 2
           /\ Len(second.children[2].children) = 2
           /\ max_player(second.children[1]) = 0
           /\ second.children[2].children[1] = GTNode_new(<<>>, 1)
           /\ second.children[2].children[2] = GTNode_new(<<>>, -1)

(***************************************************************************)
(* Claims about the AI state machine                                       *)
(***************************************************************************)

\* C25: when AIComponent.update runs and the current state's update returns
\* a state name, the component calls on_exit on the current state, then
\* on_enter on the state registered under that name, and that state is the
\* current state when update returns; if no state is registered under that
\* name the component is left with no current state.
C25_UpdateChangesState ==
    [][\A name \in AINames :
          (AIUpdate /\ update_result' = Some(name)) =>
              IF name \in state_map
              THEN /\ ai_log' = <<<<"update", current_state[1]>>,
                                  <<"on_exit", current_state[1]>>,
                                  <<"on_enter", name>>>>
                   /\ current_state' = Some(name)
              ELSE /\ ai_log' = <<<<"update", current_state[1]>>,
                                  <<"on_exit", current_state[1]>>>>
                   /\ current_state' = None]_vars

\* an update of Patrol has asked for Death, which was not registered: the
\* component has left Patrol and has no current state
C25_Witness ==
    /\ update_result = Some("Death")
    /\ "Death" \notin state_map
    /\ ai_log = <<<<"update", "Patrol">>, <<"on_exit", "Patrol">>>>
    /\ current_state = None

(***************************************************************************)
(* Claims about the component pass                                         *)
(***************************************************************************)

C27_IdsUnique ==
    \A i, j \in 1 .. Len(returned) : i # j => returned[i] # returned[j]

(***************************************************************************)
(* Claims about the Grid                                                   *)
(***************************************************************************)

\* C28: after any sequence of tile selections and build_tower calls, the
\* start tile and the end tile are unblocked and a path of adjacent unblocked
\* tiles connects them; a tower whose tile would break this is not built and
\* its tile is left unblocked.
C28_PathKept ==
    LET RECURSIVE Reach(_)
        Reach(seen) ==
            LET more == {t \in Tiles \ (seen \cup blocked) :
                            \E u \in seen :
                                \E i \in 1 .. Len(adjacent(u)) :
                                    adjacent(u)[i] = t}
            IN  IF more = {} THEN seen ELSE Reach(seen \cup more)
    IN  /\ get_start_tile \notin blocked
        /\ get_end_tile \notin blocked
        /\ get_end_tile \in Reach({get_start_tile})
        /\ towers = blocked

\* C29: when a_ster returns true, following the parent_edge links from the
\* goal back to the start yields a path whose total edge weight is minimal
\* among all paths from start to goal.
C29_AStarPathMinimal ==
    (search_call # <<>> /\ search_call[1].op = "a_ster"
     /\ search_call[1].found) =>
        LET call == search_call[1]
            \* least weight of a path of at most k edges from start to n;
            \* -1 when there is none
            RECURSIVE Dist(_, _)
            Dist(n, k) ==
                IF k = 0 THEN (IF n = call.start THEN 0 ELSE -1)
                ELSE LET prev == Dist(n, k - 1)
                         via == {Dist(m, k - 1) + call.graph[m][i].weight :
                                    <<m, i>> \in
                                        {p \in Nodes \X (1 .. MaxNodes) :
                                            /\ p[2] <= Len(call.graph[p[1]])
                                            /\ call.graph[p[1]][p[2]].to = n
                                            /\ Dist(p[1], k - 1) >= 0}}
                         all == via \cup (IF prev >= 0 THEN {prev} ELSE {})
                     IN  IF all = {} THEN -1
                         ELSE CHOOSE d \in all : \A e \in all : d <= e
            \* weight of the parent_edge links from n back to start; -1 when
            \* they do not lead there within left links
            RECURSIVE Back(_, _)
            Back(n, left) ==
                IF n = call.start THEN 0
                ELSE IF left = 0 \/ call.out_map[n].parent_edge = None THEN -1
                ELSE LET edge == call.out_map[n].parent_edge[1]
                         rest == Back(edge.from, left - 1)
                     IN  IF rest < 0 THEN -1 ELSE rest + edge.weight
        IN  Back(call.goal, MaxNodes) = Dist(call.goal, MaxNodes)

\* C30: after fix_collision the player's position carries the separating
\* correction of every plane box its world box overlapped on entry (each
\* axis a correction pushes along has moved in the direction of that
\* correction, so the corrections of several planes add up instead of
\* replacing one another), and the world box of the box component is the
\* object box at the final position
C30_CorrectionsAccumulate ==
    fix_call # <<>> =>
        LET before == fix_call[1].position
            player_box == fix_call[1].player_box
            overlapped ==
                {i \in 1 .. Len(planes) : intersect(player_box, planes[i])}
        IN  /\ \A i \in overlapped : \A k \in 1 .. 3 :
                   LET c == plane_correction(player_box, planes[i])
                   IN  c[k] # 0 =>
                           (fps_position[k] - before[k]) * c[k] > 0
            /\ fps_world_box =
                   box_on_update_world_transform(fps_object_box,
                                                 fps_position)

====
